---- MODULE Spec2Model ----
(***************************************************************************)
(* A state-machine model of FluidMechanics::Impl (src/fluids_app.cpp):     *)
(* the particle pool (release / reset / per-frame integration), the        *)
(* dataset loaders, the clip-plane computation driven by setMatrices, and  *)
(* the locking discipline between the input thread and the render thread.  *)
(*                                                                         *)
(* Numbers.  Eye-space and data-space vectors and the pose matrices are    *)
(* exact rationals <<n, d>> (the source uses float; rounding error is not  *)
(* modelled).  Particle positions are fixed point, PosScale units per      *)
(* voxel, velocities are VelScale units per 1.0, and time is counted in    *)
(* half milliseconds so that the truncating division of tv_nsec in         *)
(* integrateParticleMotion is visible.                                     *)
(***************************************************************************)
EXTENDS Integers, Sequences, FiniteSets, TLC

(***************************************************************************)
(* Bounds of the model                                                     *)
(***************************************************************************)
\* Number of particles of the pool (std::array<Particle, 200> in the source).
PoolSize == 3
\* Number of times the wall clock advances in one behaviour.
MaxAdvances == 2

(***************************************************************************)
(* Program constants                                                       *)
(***************************************************************************)
particleReleaseDuration == 700
particleStallDuration == 1000
\* particleSpeed = 0.15f = particleSpeedNum / particleSpeedDen
particleSpeedNum == 3
particleSpeedDen == 20
\* the unset seed point, Vector3(-10000.0,-10000.0,-10000.0)
SeedSentinel == -10000

\* Velocity components are stored in units of 1/VelScale; the stall threshold
\* 0.001f is then ThresholdUnits, compared on squared lengths.
VelScale == 2 * 1000
ThresholdUnits == VelScale \div 1000
\* Positions are stored in units of 1/PosScale voxel: one integration step
\* vel * particleSpeed is then (particleSpeedNum * v) position units.
PosScale == particleSpeedDen * VelScale
\* Clock ticks (half milliseconds) per second and per millisecond.
TicksPerSec == 2 * 1000
TicksPerMs == TicksPerSec \div 1000

(***************************************************************************)
(* Exact rational arithmetic                                               *)
(***************************************************************************)
\* TLC computes an argument or a LET definition where it is first used,
\* however deep in the expression that is; InOrder(defs, result) is result,
\* with the values listed in defs computed first, one after the other.
InOrder(defs, result) == IF defs = defs THEN result ELSE result

Abs(n) == IF n < 0 THEN -n ELSE n

RECURSIVE GCD(_, _)
GCD(a, b) == IF b = 0 THEN a ELSE GCD(b, a % b)

Rat(n, d) ==
    LET s == IF d < 0 THEN -1 ELSE 1
        g == GCD(Abs(n), Abs(d))
    IN  <<(s * n) \div g, (s * d) \div g>>

RInt(n) == <<n, 1>>
\* sums, products and comparisons cancel common factors before they
\* multiply, to keep the intermediate integers small
RAdd(a, b) ==
    LET g == GCD(a[2], b[2])
    IN  Rat(a[1] * (b[2] \div g) + b[1] * (a[2] \div g), (a[2] \div g) * b[2])
RNeg(a) == <<-a[1], a[2]>>
RSub(a, b) == RAdd(a, RNeg(b))
RMul(a, b) ==
    LET g1 == GCD(Abs(a[1]), b[2])
        g2 == GCD(Abs(b[1]), a[2])
    IN  <<(a[1] \div g1) * (b[1] \div g2), (a[2] \div g2) * (b[2] \div g1)>>
RDiv(a, b) == RMul(a, IF b[1] < 0 THEN <<-b[2], -b[1]>> ELSE <<b[2], b[1]>>)
RAbs(a) == <<Abs(a[1]), a[2]>>
RLt(a, b) ==
    LET g == GCD(a[2], b[2]) IN a[1] * (b[2] \div g) < b[1] * (a[2] \div g)
RLe(a, b) ==
    LET g == GCD(a[2], b[2]) IN a[1] * (b[2] \div g) <= b[1] * (a[2] \div g)
RIsZero(a) == a[1] = 0
\* float -> int conversion: truncation toward zero
RTrunc(a) == IF a[1] >= 0 THEN a[1] \div a[2] ELSE -((-a[1]) \div a[2])
\* C++ integer division: truncation toward zero
TruncDiv(n, d) == IF n >= 0 THEN n \div d ELSE -((-n) \div d)

(***************************************************************************)
(* Vector3 and the affine part of Matrix4                                  *)
(***************************************************************************)
Vec(x, y, z) == <<RInt(x), RInt(y), RInt(z)>>
VZero == Vec(0, 0, 0)
\* the sum of the first n entries of a sequence of rationals
RECURSIVE RSum(_, _)
RSum(s, n) == IF n = 1 THEN s[1] ELSE RAdd(RSum(s, n - 1), s[n])

\* the triple of the values of f at 1, 2 and 3
Triple(f) == <<f[1], f[2], f[3]>>

VAdd(u, v) == InOrder(<<u, v>>, Triple([i \in 1..3 |-> RAdd(u[i], v[i])]))
VSub(u, v) == InOrder(<<u, v>>, Triple([i \in 1..3 |-> RSub(u[i], v[i])]))
VScale(u, r) == InOrder(<<u, r>>, Triple([i \in 1..3 |-> RMul(u[i], r)]))
VMul(u, v) == InOrder(<<u, v>>, Triple([i \in 1..3 |-> RMul(u[i], v[i])]))
VNeg(u) == Triple([i \in 1..3 |-> RNeg(u[i])])
VDot(u, v) == InOrder(<<u, v>>, RSum(Triple([i \in 1..3 |-> RMul(u[i], v[i])]), 3))

\* A 3x3 matrix is a triple of rows.
M3Apply(m, v) == InOrder(<<m, v>>, Triple([i \in 1..3 |-> VDot(m[i], v)]))
M3Col(m, j) == Triple([i \in 1..3 |-> m[i][j]])
M3Transpose(m) == InOrder(m, Triple([j \in 1..3 |-> M3Col(m, j)]))
M3MulRow(r, b) == Triple([j \in 1..3 |-> VDot(r, M3Col(b, j))])
M3Mul(a, b) == InOrder(<<a, b>>, Triple([i \in 1..3 |-> M3MulRow(a[i], b)]))
\* index arithmetic of the cofactors
Nx(i) == (i % 3) + 1
M3Cof(m, i, j) ==
    RSub(RMul(m[Nx(i)][Nx(j)], m[Nx(Nx(i))][Nx(Nx(j))]),
         RMul(m[Nx(i)][Nx(Nx(j))], m[Nx(Nx(i))][Nx(j)]))
\* expansion along the first row
M3Det(m) == RSum(Triple([j \in 1..3 |-> RMul(m[1][j], M3Cof(m, 1, j))]), 3)
M3InvRow(m, i, det) == Triple([j \in 1..3 |-> RDiv(M3Cof(m, j, i), det)])
M3Inverse(m) == InOrder(m, Triple([i \in 1..3 |-> M3InvRow(m, i, M3Det(m))]))
M3Identity == <<Vec(1, 0, 0), Vec(0, 1, 0), Vec(0, 0, 1)>>

\* Matrix4 restricted to affine maps: x |-> lin * x + t.
Mat(lin, t) == [lin |-> lin, t |-> t]
MatIdentity == Mat(M3Identity, VZero)
MatApply(m, v) == InOrder(<<m, v>>, VAdd(M3Apply(m.lin, v), m.t))
MatMul(a, b) == InOrder(<<a, b>>, Mat(M3Mul(a.lin, b.lin), VAdd(M3Apply(a.lin, b.t), a.t)))
MatInvertible(m) == ~RIsZero(M3Det(m.lin))
\* Matrix4::inverse(), defined where the matrix is invertible; the callers
\* test MatInvertible first and raise the exception otherwise.
MatInverseOf(m, inv) == Mat(inv, VScale(M3Apply(inv, m.t), RInt(-1)))
MatInverse(m) == MatInverseOf(m, M3Inverse(m.lin))

\* Matrix4::makeTransform(position, rotation, scale): translate * rotate * scale
Diag(v) == <<<<v[1], RInt(0), RInt(0)>>, <<RInt(0), v[2], RInt(0)>>, <<RInt(0), RInt(0), v[3]>>>>
makeTransform(pos, rot, scale) == Mat(M3Mul(rot, Diag(scale)), pos)
Translation(pos) == Mat(M3Identity, pos)
UnitX == Vec(1, 0, 0)
UnitY == Vec(0, 1, 0)
UnitZ == Vec(0, 0, 1)

\* The exact square root of a rational that is a square (the poses of the
\* model keep every length that is normalised rational).
ISqrt(n) == CHOOSE k \in 0..n : k * k = n
RSqrt(a) == <<ISqrt(a[1]), ISqrt(a[2])>>
VLength(v) == RSqrt(VDot(v, v))
\* Vector3::normalized()
VNormalized(v) == VScale(v, RDiv(RInt(1), VLength(v)))
\* a.project(b): the projection of b on the direction a
VProject(a, b) == VScale(a, RDiv(VDot(a, b), VDot(a, a)))
\* v.projectOnPlane(n)
VProjectOnPlane(v, n) == VSub(v, VProject(n, v))

(***************************************************************************)
(* IEEE floats with their infinities: a finite value is a rational <<n, d>>*)
(* with d > 0, +inf is <<1, 0>>, -inf is <<-1, 0>> and NaN is <<0, 0>>.    *)
(* The sign of a zero is not kept: x / 0 is taken as x / +0.               *)
(***************************************************************************)
FInf == <<1, 0>>
FNegInf == <<-1, 0>>
FNaN == <<0, 0>>
FIsNaN(a) == a = FNaN
FIsFinite(a) == a[2] # 0
\* a / b for finite a and b
FDiv(a, b) ==
    IF ~RIsZero(b) THEN RDiv(a, b)
    ELSE IF RIsZero(a) THEN FNaN
    ELSE IF a[1] > 0 THEN FInf ELSE FNegInf
\* a > b: false as soon as one side is NaN
FGt(a, b) ==
    /\ ~FIsNaN(a) /\ ~FIsNaN(b)
    /\ IF FIsFinite(a) /\ FIsFinite(b) THEN RLt(b, a)
       ELSE IF FIsFinite(a) THEN b = FNegInf
       ELSE IF FIsFinite(b) THEN a = FInf
       ELSE a = FInf /\ b = FNegInf
FLt(a, b) == FGt(b, a)

\* the pair (lo, hi) after "if (lo > hi) std::swap(lo, hi)"
Swapped(lo, hi) == IF FGt(lo, hi) THEN <<hi, lo>> ELSE <<lo, hi>>
\* one slab of the ray/box test on axis k
Slab(rayPoint, rayDir, aabbMin, aabbMax, k) ==
    Swapped(FDiv(RSub(aabbMin[k], rayPoint[k]), rayDir[k]),
            FDiv(RSub(aabbMax[k], rayPoint[k]), rayDir[k]))

\* The three slabs sx, sy, sz of a ray narrowed one into the other, and
\* the interval [tmin, tmax] narrowed by what is left.
SlabsMeet(sx, sy, sz, tmin, tmax) ==
    LET miss == [hit |-> FALSE, tmin |-> tmin, tmax |-> tmax]
    IN  IF FGt(sx[1], sy[2]) \/ FGt(sy[1], sx[2]) THEN miss
        ELSE LET lo1 == IF FGt(sy[1], sx[1]) THEN sy[1] ELSE sx[1]
                 hi1 == IF FLt(sy[2], sx[2]) THEN sy[2] ELSE sx[2]
             IN  IF FGt(lo1, sz[2]) \/ FGt(sz[1], hi1) THEN miss
                 ELSE LET lo2 == IF FGt(sz[1], lo1) THEN sz[1] ELSE lo1
                          hi2 == IF FLt(sz[2], hi1) THEN sz[2] ELSE hi1
                      IN  IF FGt(lo2, tmax) \/ FLt(hi2, tmin) THEN miss
                          ELSE [hit |-> TRUE,
                                tmin |-> IF FLt(tmin, lo2) THEN lo2 ELSE tmin,
                                tmax |-> IF FGt(tmax, hi2) THEN hi2 ELSE tmax]

\* The lambda rayAABBIntersection of updateSlicePlanes: the result carries
\* the return value and the in/out parameters tmin and tmax.
rayAABBIntersection(rayPoint, rayDir, aabbMin, aabbMax, tmin, tmax) ==
    SlabsMeet(Slab(rayPoint, rayDir, aabbMin, aabbMax, 1),
              Slab(rayPoint, rayDir, aabbMin, aabbMax, 2),
              Slab(rayPoint, rayDir, aabbMin, aabbMax, 3), tmin, tmax)

(***************************************************************************)
(* Files handed to the loaders.  GetDimensions, GetSpacing and the point   *)
(* vectors are what the VTK reader returns for the file.                   *)
(***************************************************************************)
NullPtr == [null |-> TRUE]

DataFiles ==
    { [name |-> "grid222.vtk", ext |-> "vtk", readable |-> TRUE,
       dim |-> <<2, 2, 2>>, spacing |-> Vec(1, 1, 1),
       probe |-> Rat(1, 2), range |-> <<RInt(0), RInt(2)>>],
      [name |-> "broken.vtk", ext |-> "vtk", readable |-> FALSE,
       dim |-> <<2, 2, 2>>, spacing |-> Vec(1, 1, 1),
       probe |-> Rat(1, 2), range |-> <<RInt(0), RInt(2)>>],
      [name |-> "grid222.raw", ext |-> "raw", readable |-> TRUE,
       dim |-> <<2, 2, 2>>, spacing |-> Vec(1, 1, 1),
       probe |-> Rat(1, 2), range |-> <<RInt(0), RInt(2)>>] }

VelocityFiles ==
    { [name |-> "vel222.vtk", ext |-> "vtk", readable |-> TRUE,
       dim |-> <<2, 2, 2>>, hasVectors |-> TRUE],
      [name |-> "vel321.vti", ext |-> "vti", readable |-> TRUE,
       dim |-> <<3, 2, 1>>, hasVectors |-> TRUE],
      [name |-> "scalars222.vtk", ext |-> "vtk", readable |-> TRUE,
       dim |-> <<2, 2, 2>>, hasVectors |-> FALSE],
      [name |-> "broken.vti", ext |-> "vti", readable |-> FALSE,
       dim |-> <<2, 2, 2>>, hasVectors |-> TRUE],
      [name |-> "vel222.raw", ext |-> "raw", readable |-> TRUE,
       dim |-> <<2, 2, 2>>, hasVectors |-> TRUE] }

\* The velocity tuple stored at voxel (x, y, z) of a velocity file, in
\* 1/VelScale units: a fast flow along the second component at the origin
\* voxel, the opposite flow above it, a speed below the stall threshold at
\* (1,1,0), rest at (1,0,0), and a fast flow along Z in the upper layers.
FastVel == 2 * VelScale
SlowVel == VelScale \div 2000
VelAt(x, y, z) ==
    IF z >= 1 THEN <<0, 0, FastVel>>
    ELSE IF x = 0 /\ y = 0 THEN <<0, FastVel, 0>>
    ELSE IF x = 0 /\ y = 1 THEN <<0, -FastVel, 0>>
    ELSE IF x = 1 /\ y = 1 THEN <<SlowVel, 0, 0>>
    ELSE <<0, 0, 0>>

\* The point-data vector array of a file, in VTK's linear order
\* (index z*dx*dy + y*dx + x, stored here at position index + 1).
FieldVectors(dim) ==
    [i \in 1..(dim[1] * dim[2] * dim[3]) |->
        VelAt((i - 1) % dim[1],
              ((i - 1) \div dim[1]) % dim[2],
              (i - 1) \div (dim[1] * dim[2]))]

\* vtkImageData::GetDataDimension(): the number of axes with more than one sample
GetDataDimension(dim) == Cardinality({i \in 1..3 : dim[i] > 1})

\* The vtkImageData object a reader builds from a file.
ImageOf(f) ==
    [null |-> FALSE, name |-> f.name, dim |-> f.dim, probe |-> f.probe, range |-> f.range]
VelocityImageOf(f) ==
    [null |-> FALSE, name |-> f.name, dim |-> f.dim, hasVectors |-> f.hasVectors,
     vectors |-> IF f.hasVectors THEN FieldVectors(f.dim) ELSE <<>>]

\* loadTypedDataSet succeeds on a known extension and a readable file
KnownExt(f) == f.ext \in {"vtk", "vti"}
LoadThrows(f) == ~KnownExt(f) \/ ~f.readable

(***************************************************************************)
(* Enumerations: ClipAxis and SliceType                                    *)
(***************************************************************************)
CLIP_NONE == "CLIP_NONE"
CLIP_AXIS_X == "CLIP_AXIS_X"
CLIP_AXIS_Y == "CLIP_AXIS_Y"
CLIP_AXIS_Z == "CLIP_AXIS_Z"
CLIP_NEG_AXIS_X == "CLIP_NEG_AXIS_X"
CLIP_NEG_AXIS_Y == "CLIP_NEG_AXIS_Y"
CLIP_NEG_AXIS_Z == "CLIP_NEG_AXIS_Z"
SLICE_CAMERA == "SLICE_CAMERA"
SLICE_AXIS == "SLICE_AXIS"
SLICE_STYLUS == "SLICE_STYLUS"
SliceTypes == {SLICE_CAMERA, SLICE_AXIS, SLICE_STYLUS}

(***************************************************************************)
(* State                                                                   *)
(***************************************************************************)
VARIABLES
    \* Impl: the datasets
    data, dataDim, dataSpacing, velocityData,
    \* Impl: the particle pool
    particles, particleStartTime, seedPoint,
    \* State / Settings fields read by the pool
    modelMatrix, stylusModelMatrix, tangibleVisible, stylusVisible,
    zoomFactor, computedZoomFactor,
    \* the last call of a pure function of the geometry: its name, its
    \* arguments and what it returned
    kernelCall,
    \* the Volume object: its clip plane and opacity
    volume,
    \* the particle markers handed to the renderer by the last render pass
    markers,
    \* CLOCK_REALTIME in half milliseconds, and how often it has advanced
    clock, advances,
    \* history: the clock ticks that passed while the tangible was hidden
    \* since the particles were last released or integrated
    hiddenTicks,
    \* how the last call ended: "ok", the exception that escaped it, or for
    \* releaseParticles "outside bounds" (the early return) and "released",
    \* for renderObjects "rendered";
    \* and the invalid memory access the process has died on, "no" while it lives
    outcome, crashed,
    \* Settings: slicing mode and switches
    showSlice, sliceType, surfacePreview, surfacePercentage,
    \* State: the candidate and the locked clip axis, the slice quad's pose
    clipAxis, lockedClipAxis, sliceModelMatrix,
    \* what slice->isEmpty() answered to the last plane computation that ran
    \* to its end, FALSE when that computation did not ask
    sliceEmpty,
    \* Impl: the slice plane, its depth and its intersection with the data box
    slicePoint, sliceNormal, sliceDepth, slicePoints,
    \* Impl: the stylus effector and its button
    effectorIntersection, effectorIntersectionValid, buttonIsPressed,
    \* the Slice and IsoSurface objects
    slice, isosurface, isosurfaceLow,
    \* function-local statics: wasVisible and prevPos of
    \* computeCameraClipPlane, prevValue of updateSlicePlanes
    wasVisible, prevPos, prevValue,
    \* history: no camera plane has been computed since the tangible was last
    \* invisible (or since construction)
    noPlaneSinceHidden,
    \* the cross-section lines handed to the renderer by the last render pass
    lineVec,
    \* the two threads that call into Impl: where each stands in its call,
    \* the synchronized cells it holds, and the particle its loop is at
    pc, held, cursor,
    \* renderObjects: the local "exists"
    exists

dataVars == <<data, dataDim, dataSpacing, velocityData, computedZoomFactor>>
poolVars == <<particles, particleStartTime, markers>>
poseVars == <<modelMatrix, stylusModelMatrix>>
visVars == <<tangibleVisible, stylusVisible>>
envVars == <<clock, advances, hiddenTicks>>
settingVars == <<showSlice, sliceType, buttonIsPressed>>
previewVars == <<surfacePreview, surfacePercentage, prevValue>>
axisVars == <<clipAxis, lockedClipAxis, sliceEmpty>>
planeVars == <<sliceModelMatrix, slicePoint, sliceNormal, sliceDepth, slicePoints>>
effectorVars == <<effectorIntersection, effectorIntersectionValid>>
cameraVars == <<wasVisible, prevPos, noPlaneSinceHidden>>
frameVars == <<previewVars, axisVars, planeVars, effectorVars, cameraVars>>
objectVars == <<slice, isosurface, isosurfaceLow>>
clipVars == <<settingVars, frameVars, objectVars, lineVec>>
threadVars == <<pc, held, cursor, exists>>
vars == <<dataVars, poolVars, seedPoint, poseVars, visVars, zoomFactor, kernelCall, volume,
          envVars, outcome, crashed, clipVars, threadVars>>

(***************************************************************************)
(* Coordinate transforms                                                   *)
(***************************************************************************)
\* Vector3(dataDim[0]/2, dataDim[1]/2, dataDim[2]/2) * dataSpacing
HalfExtent ==
    VMul(Vec(TruncDiv(dataDim[1], 2), TruncDiv(dataDim[2], 2), TruncDiv(dataDim[3], 2)),
         dataSpacing)

\* posToDataCoords: eye space -> data space (modelMatrix must be invertible)
posToDataCoords(pos) ==
    VAdd(VScale(MatApply(MatInverse(modelMatrix), pos), RDiv(RInt(1), zoomFactor)),
         HalfExtent)

\* dataCoordsToPos: data space -> eye space
dataCoordsToPos(dataCoords) ==
    MatApply(modelMatrix, VScale(VSub(dataCoords, HalfExtent), zoomFactor))

(***************************************************************************)
(* float: IEEE-754 single precision.  A float is the rational it stands    *)
(* for; Float32(r) is the float nearest to r, ties to the even mantissa.   *)
(* Exponent range and subnormals are out of reach of the values below.     *)
(***************************************************************************)
\* significant bits of a float
MantissaBits == 24
RECURSIVE Pow2(_)
Pow2(k) == IF k = 0 THEN 1 ELSE 2 * Pow2(k - 1)
\* n / d rounded to the nearest integer, ties to even (n >= 0, d > 0)
RoundHalfEven(n, d) ==
    LET q == n \div d
        r == n % d
    IN  IF 2 * r > d \/ (2 * r = d /\ q % 2 = 1) THEN q + 1 ELSE q
\* The float nearest to n / d * 2^down / 2^up for n, d > 0: the value is
\* scaled by powers of two until it has MantissaBits bits before the point,
\* rounded there, and scaled back; a value that turns out to be a whole
\* number of fewer bits is a float as it is.
RECURSIVE FloatOf(_, _, _, _)
FloatOf(n, d, up, down) ==
    IF n \div d < Pow2(MantissaBits - 1)
    THEN IF d % 2 = 0 THEN FloatOf(n, d \div 2, up + 1, down)
         ELSE IF d = 1 THEN Rat(n, Pow2(up))
         ELSE FloatOf(2 * n, d, up + 1, down)
    ELSE IF n \div d >= Pow2(MantissaBits)
    THEN IF n % 2 = 0 THEN FloatOf(n \div 2, d, up, down + 1)
         ELSE FloatOf(n, 2 * d, up, down + 1)
    ELSE RMul(RInt(RoundHalfEven(n, d)), Rat(Pow2(down), Pow2(up)))
Float32(r) ==
    IF r[1] = 0 THEN r
    ELSE IF r[1] < 0 THEN RNeg(FloatOf(-r[1], r[2], 0, 0))
    ELSE FloatOf(r[1], r[2], 0, 0)
VFloat32(v) == <<Float32(v[1]), Float32(v[2]), Float32(v[3])>>

\* posToDataCoords as the floats compute it.  The product of the matrix and
\* the vector is rounded once per component: with entries 0, 1 and -1 and a
\* translation, as in the poses used with it, every product is exact and one
\* sum is rounded.
posToDataCoords32(pos) ==
    VFloat32(VAdd(VFloat32(VScale(VFloat32(MatApply(MatInverse(modelMatrix), pos)),
                                  Float32(RDiv(RInt(1), zoomFactor)))),
                  VFloat32(HalfExtent)))

\* dataCoordsToPos without the compensation of the scale factor.
C11_NoZoomBack(dataCoords) ==
    VFloat32(MatApply(modelMatrix, VFloat32(VSub(dataCoords, VFloat32(HalfExtent)))))

\* dataCoordsToPos as the floats compute it.
dataCoordsToPos32(dataCoords) ==
    VFloat32(MatApply(modelMatrix,
                      VFloat32(VScale(VFloat32(VSub(dataCoords, VFloat32(HalfExtent))),
                                      zoomFactor))))

(***************************************************************************)
(* The particle pool                                                       *)
(***************************************************************************)
\* Values an uninitialised int member may hold after construction.
GarbageInts == {0, 12345}
GarbageDims == {<<0, 0, 0>>, <<2, 2, 2>>}
\* particleStartTime is not initialised either
GarbageTimes == {0}

\* particleJitter(): float(rand()) / RAND_MAX per axis, in position units.
\* rand() ranges over 0..RAND_MAX, so a component ranges over 0..PosScale,
\* both ends included; the model draws these two sample vectors.
NoJitter == <<0, 0, 0>>
TopJitter == <<PosScale \div 2, 0, PosScale>>
\* The runs of rand() the model follows through one release: every draw 0,
\* or the draws of every other particle at the upper end.
JitterRuns ==
    { [i \in 1..PoolSize |-> NoJitter],
      [i \in 1..PoolSize |-> IF i % 2 = 1 THEN TopJitter ELSE NoJitter] }

\* What an out-of-range read of the velocity array yields: the process
\* dies, or the read returns whatever lies behind the array.
OobReads ==
    { [crash |-> TRUE, v |-> <<0, 0, 0>>],
      [crash |-> FALSE, v |-> <<0, 0, 0>>],
      [crash |-> FALSE, v |-> <<0, FastVel, 0>>] }

\* the seed points the control surface hands to setSeedPoint (eye space)
SeedUnset == Vec(SeedSentinel, SeedSentinel, SeedSentinel)
Half == Rat(1, 2)
SeedPoints ==
    { <<RNeg(Half), RNeg(Half), RNeg(Half)>>,
      <<RNeg(Half), Half, RNeg(Half)>>,
      <<Rat(3, 2), RNeg(Half), RNeg(Half)>> }

\* The delay step rounded up instead of down.
C8_StepRoundedUp == (particleReleaseDuration + PoolSize - 1) \div PoolSize

\* the delay added per particle: particleReleaseDuration / particles.size()
ReleaseStep == particleReleaseDuration \div PoolSize

\* The bounds test without its upper limits.
C4_SeedBelowOnly(dataPos) ==
    RLt(dataPos[1], RInt(0)) \/ RLt(dataPos[2], RInt(0)) \/ RLt(dataPos[3], RInt(0))

\* the bounds test of releaseParticles on the float data position
SeedOutside(dataPos) ==
    \/ RLt(dataPos[1], RInt(0)) \/ RLt(dataPos[2], RInt(0)) \/ RLt(dataPos[3], RInt(0))
    \/ RLe(RInt(dataDim[1]), dataPos[1])
    \/ RLe(RInt(dataDim[2]), dataPos[2])
    \/ RLe(RInt(dataDim[3]), dataPos[3])

\* The body of the release loop for the particle at pool index i.
ReleaseOne(i, coords, jitter, start) ==
    [pos |-> <<coords[1] * PosScale + jitter[1],
               coords[2] * PosScale + jitter[2],
               coords[3] * PosScale + jitter[3]>>,
     lastTime |-> start,
     delayMs |-> (i - 1) * ReleaseStep,
     stallMs |-> 0,
     valid |-> TRUE]

\* A reset that zeroes the delay as well.
C19_ResetAll(p) ==
    [p EXCEPT !.pos = <<0, 0, 0>>, !.delayMs = 0, !.stallMs = 0, !.valid = FALSE]
\* The body of the reset loop.
ResetOne(p) == [p EXCEPT !.pos = <<0, 0, 0>>, !.stallMs = 0, !.valid = FALSE]

\* (now.tv_sec - last.tv_sec) * 1000 + (now.tv_nsec - last.tv_nsec) / 1000000
ElapsedMs(now, last) ==
    ((now \div TicksPerSec) - (last \div TicksPerSec)) * 1000
    + TruncDiv((now % TicksPerSec) - (last % TicksPerSec), TicksPerMs)

\* DataCoords(p.pos.x, p.pos.y, p.pos.z): float -> int truncates toward zero
VoxelOf(pos) ==
    <<TruncDiv(pos[1], PosScale), TruncDiv(pos[2], PosScale), TruncDiv(pos[3], PosScale)>>

CoordsOutside(c) ==
    \/ c[1] < 0 \/ c[2] < 0 \/ c[3] < 0
    \/ c[1] >= dataDim[1] \/ c[2] >= dataDim[2] \/ c[3] >= dataDim[3]

\* coords.z*(dataDim[0]*dataDim[1]) + coords.y*dataDim[0] + coords.x
LinearIndex(c) == c[3] * (dataDim[1] * dataDim[2]) + c[2] * dataDim[1] + c[1]

\* vel.length() > 0.001f
Moving(vel) ==
    vel[1] * vel[1] + vel[2] * vel[2] + vel[3] * vel[3] > ThresholdUnits * ThresholdUnits

\* One Euler step scaled by the elapsed time instead of one step per
\* millisecond.
C26_EulerStep(p, elapsedMs, oob) ==
    IF elapsedMs <= 0 THEN [p |-> p, fault |-> "none"]
    ELSE LET coords == VoxelOf(p.pos) IN
         IF CoordsOutside(coords)
         THEN [p |-> [p EXCEPT !.valid = FALSE], fault |-> "none"]
         ELSE IF ~velocityData.hasVectors
         THEN [p |-> p, fault |-> "null vectors"]
         ELSE LET index == LinearIndex(coords)
                  inRange == index < Len(velocityData.vectors)
              IN  IF ~inRange /\ oob.crash
                  THEN [p |-> p, fault |-> "read out of range"]
                  ELSE LET v == IF inRange THEN velocityData.vectors[index + 1] ELSE oob.v
                           vel == <<v[2], v[1], v[3]>>
                       IN  IF Moving(vel)
                           THEN [p |-> [p EXCEPT !.pos =
                                          <<@[1] + elapsedMs * particleSpeedNum * vel[1],
                                            @[2] + elapsedMs * particleSpeedNum * vel[2],
                                            @[3] + elapsedMs * particleSpeedNum * vel[3]>>],
                                 fault |-> "none"]
                           ELSE [p |-> [p EXCEPT !.stallMs = particleStallDuration],
                                 fault |-> "none"]

\* The while loop of integrateParticleMotion, one iteration per millisecond.
\* The result carries the particle and the memory fault met, if any.
RECURSIVE IntegrateLoop(_, _, _)
IntegrateLoop(p, elapsedMs, oob) ==
    IF elapsedMs <= 0 THEN [p |-> p, fault |-> "none"]
    ELSE LET coords == VoxelOf(p.pos) IN
         IF CoordsOutside(coords)
         THEN [p |-> [p EXCEPT !.valid = FALSE], fault |-> "none"]
         ELSE IF ~velocityData.hasVectors
         THEN [p |-> p, fault |-> "null vectors"]
         ELSE LET index == LinearIndex(coords)
                  inRange == index < Len(velocityData.vectors)
              IN  IF ~inRange /\ oob.crash
                  THEN [p |-> p, fault |-> "read out of range"]
                  ELSE LET v == IF inRange THEN velocityData.vectors[index + 1] ELSE oob.v
                           \* workaround for a wrong data orientation
                           vel == <<v[2], v[1], v[3]>>
                       IN  IF Moving(vel)
                           THEN IntegrateLoop(
                                    [p EXCEPT !.pos = <<@[1] + particleSpeedNum * vel[1],
                                                        @[2] + particleSpeedNum * vel[2],
                                                        @[3] + particleSpeedNum * vel[3]>>],
                                    elapsedMs - 1, oob)
                           ELSE [p |-> [p EXCEPT !.stallMs = particleStallDuration],
                                 fault |-> "none"]

\* The stall countdown of integrateParticleMotion (p.stallMs > 0 on entry).
StallStage(p, elapsedMs) ==
    LET s == p.stallMs - elapsedMs
    IN  [p EXCEPT !.stallMs = s, !.valid = IF s < 0 THEN FALSE ELSE @]

\* integrateParticleMotion with the whole elapsed time kept as movable time
\* on the tick where the delay expires.
C17_ChargeWholeTick(p, now, oob) ==
    IF ~p.valid \/ ~tangibleVisible THEN [p |-> p, fault |-> "none"]
    ELSE LET e0 == ElapsedMs(now, p.lastTime)
             p1 == [p EXCEPT !.lastTime = now]
             counting == p1.delayMs > 0
             d == p1.delayMs - e0
             p2 == IF counting THEN [p1 EXCEPT !.delayMs = d] ELSE p1
         IN  IF counting /\ ~(d < 0) THEN [p |-> p2, fault |-> "none"]
             ELSE IF p2.stallMs > 0
             THEN [p |-> StallStage(p2, e0), fault |-> "none"]
             ELSE IF velocityData.null
             THEN [p |-> p2, fault |-> "null velocityData"]
             ELSE IntegrateLoop(p2, e0, oob)

\* integrateParticleMotion(p) at wall-clock time now.
integrateParticleMotion(p, now, oob) ==
    IF ~p.valid \/ ~tangibleVisible THEN [p |-> p, fault |-> "none"]
    ELSE LET e0 == ElapsedMs(now, p.lastTime)
             p1 == [p EXCEPT !.lastTime = now]
             counting == p1.delayMs > 0
             d == p1.delayMs - e0
             p2 == IF counting THEN [p1 EXCEPT !.delayMs = d] ELSE p1
             elapsedMs == IF counting /\ d < 0 THEN -d ELSE e0
         IN  IF counting /\ ~(d < 0) THEN [p |-> p2, fault |-> "none"]
             ELSE IF p2.stallMs > 0
             THEN [p |-> StallStage(p2, elapsedMs), fault |-> "none"]
             ELSE IF velocityData.null
             THEN [p |-> p2, fault |-> "null velocityData"]
             ELSE IntegrateLoop(p2, elapsedMs, oob)

\* The particle pass of renderObjects from pool index i on: each valid
\* particle is integrated, and drawn when it is still valid and has emerged.
RECURSIVE ParticlePass(_, _, _, _, _)
ParticlePass(parts, i, now, oob, drawn) ==
    IF i > PoolSize THEN [parts |-> parts, fault |-> "none", drawn |-> drawn]
    ELSE IF ~parts[i].valid THEN ParticlePass(parts, i + 1, now, oob, drawn)
    ELSE LET r == integrateParticleMotion(parts[i], now, oob)
             next == [parts EXCEPT ![i] = r.p]
         IN  IF r.fault # "none"
             THEN [parts |-> next, fault |-> r.fault, drawn |-> drawn]
             ELSE ParticlePass(next, i + 1, now, oob,
                               IF ~r.p.valid \/ r.p.delayMs > 0 THEN drawn
                               ELSE drawn \cup {i})

AnyValid(parts) == \E i \in 1..PoolSize : parts[i].valid

(***************************************************************************)
(* Construction                                                            *)
(***************************************************************************)
NoPlane == [set |-> FALSE]
RMax(a, b) == IF RLt(a, b) THEN b ELSE a

\* The wall clock at construction: just before a second boundary.
ClockStart == TicksPerSec - 1

\* Impl::Impl marks every particle invalid and leaves the other members of
\* Particle, and dataDim, uninitialised; the seed point is the sentinel.
InitPool ==
    /\ data = NullPtr
    /\ dataDim \in GarbageDims
    /\ dataSpacing = VZero
    /\ velocityData = NullPtr
    /\ \E g \in GarbageInts :
         particles = [i \in 1..PoolSize |->
                        [pos |-> <<g, g, g>>, valid |-> FALSE, delayMs |-> g,
                         stallMs |-> g, lastTime |-> 0]]
    /\ particleStartTime \in GarbageTimes
    /\ seedPoint = SeedUnset
    /\ volume = NullPtr
    /\ markers = {}

InitPose ==
    /\ stylusModelMatrix = MatIdentity
    /\ tangibleVisible = FALSE
    /\ stylusVisible = FALSE
    /\ computedZoomFactor = RInt(1)

\* the pose of the data and the zoom of the settings
InitZoom ==
    /\ modelMatrix = MatIdentity
    /\ zoomFactor = RInt(1)

InitEnv ==
    /\ clock = ClockStart
    /\ advances = 0
    /\ hiddenTicks = 0
    /\ outcome = "ok"
    /\ crashed = "no"

\* Settings and State as the application creates them; the members of Impl
\* that its constructor does not initialise (sliceDepth,
\* effectorIntersectionValid) are written by updateSlicePlanes before any
\* live code reads them, and start here at one representative value.
InitClip ==
    /\ showSlice = FALSE
    /\ sliceType = SLICE_STYLUS
    /\ surfacePreview = FALSE
    /\ surfacePercentage = RInt(0)
    /\ clipAxis = CLIP_NONE
    /\ lockedClipAxis = CLIP_NONE
    /\ sliceEmpty = FALSE
    /\ sliceModelMatrix = MatIdentity
    /\ sliceDepth = RInt(0)
    /\ slicePoints = <<>>
    /\ effectorIntersection = VZero
    /\ effectorIntersectionValid = FALSE
    /\ buttonIsPressed = FALSE
    /\ slice = NullPtr
    /\ isosurface = NullPtr
    /\ isosurfaceLow = NullPtr
    /\ wasVisible = FALSE
    /\ prevPos = VZero
    /\ noPlaneSinceHidden = TRUE
    /\ prevValue = RInt(0)
    /\ lineVec = <<>>

\* the clip plane
InitPlane ==
    /\ slicePoint = VZero
    /\ sliceNormal = VZero

\* No call is in progress.
NoCall == [op |-> "none"]
Threads == {"input", "render"}
InitCalls ==
    /\ pc = [t \in Threads |-> "idle"]
    /\ held = [t \in Threads |-> {}]
    /\ cursor = [t \in Threads |-> 0]
    /\ exists = FALSE
    /\ kernelCall = NoCall

Init == InitPool /\ InitPose /\ InitZoom /\ InitEnv /\ InitClip /\ InitPlane /\ InitCalls

(***************************************************************************)
(* Operations on the datasets and the pool, each as one atomic call        *)
(***************************************************************************)
\* nativeSize / max extent, at least 0.25
ComputedZoom(f) ==
    LET ext(i) == RMul(f.spacing[i], RInt(f.dim[i]))
    IN  RMax(RDiv(RInt(110), RMax(ext(1), RMax(ext(2), ext(3)))), Rat(1, 4))

\* new IsoSurface(data) followed by setPercentage(settings->surfacePercentage)
NewIsoSurface ==
    [null |-> FALSE, clip |-> NoPlane, percentage |-> surfacePercentage, value |-> RInt(0)]
\* new Slice(data): no slice has been set on it yet
NewSlice ==
    [null |-> FALSE, set |-> FALSE, matrix |-> MatIdentity, depth |-> RInt(0),
     zoom |-> RInt(1)]

\* loadDataSet(fileName)
LoadDataSet(f) ==
    /\ crashed = "no"
    /\ UNCHANGED threadVars
    /\ velocityData' = NullPtr
    /\ particles' = [i \in 1..PoolSize |-> [particles[i] EXCEPT !.valid = FALSE]]
    /\ IF LoadThrows(f)
       THEN /\ outcome' = "runtime_error"
            /\ UNCHANGED <<data, dataDim, dataSpacing, computedZoomFactor, volume,
                           objectVars>>
       ELSE /\ outcome' = "ok"
            /\ data' = ImageOf(f)
            /\ dataDim' = f.dim
            /\ dataSpacing' = f.spacing
            /\ computedZoomFactor' = ComputedZoom(f)
            /\ volume' = [null |-> FALSE, clip |-> NoPlane, opacity |-> RInt(1),
                          range |-> f.range]
            /\ isosurface' = NewIsoSurface
            /\ isosurfaceLow' = NewIsoSurface
            /\ slice' = NewSlice
    /\ UNCHANGED <<particleStartTime, markers, seedPoint, poseVars, visVars,
                   zoomFactor, kernelCall, envVars, crashed, settingVars, frameVars, lineVec>>

\* The checks loadVelocityDataSet makes on the image it has just installed.
VelocityRejected(v) ==
    \/ v.dim # dataDim
    \/ GetDataDimension(v.dim) # 3
    \/ ~v.hasVectors

\* loadVelocityDataSet(fileName): the image is assigned to velocityData as
\* soon as the reader returns, and validated afterwards.
LoadVelocityDataSet(f) ==
    /\ crashed = "no"
    /\ UNCHANGED threadVars
    /\ UNCHANGED clipVars
    /\ IF data.null \/ LoadThrows(f)
       THEN /\ outcome' = "runtime_error"
            /\ UNCHANGED velocityData
       ELSE /\ velocityData' = VelocityImageOf(f)
            /\ outcome' = IF VelocityRejected(VelocityImageOf(f))
                         THEN "runtime_error" ELSE "ok"
    /\ UNCHANGED <<data, dataDim, dataSpacing, computedZoomFactor, poolVars,
                   seedPoint, poseVars, visVars, zoomFactor, kernelCall, volume, envVars, crashed>>

\* setSeedPoint(x, y, z)
SetSeedPoint(s) ==
    /\ crashed = "no"
    /\ UNCHANGED threadVars
    /\ UNCHANGED clipVars
    /\ seedPoint' = s
    /\ outcome' = "ok"
    /\ UNCHANGED <<dataVars, poolVars, poseVars, visVars, zoomFactor, kernelCall, volume,
                   envVars, crashed>>

\* releaseParticles(): the jitter of the particles is one of JitterRuns
ReleaseParticles ==
    /\ crashed = "no"
    /\ UNCHANGED threadVars
    /\ UNCHANGED clipVars
    /\ IF seedPoint = SeedUnset
       THEN /\ outcome' = "ok"
            /\ UNCHANGED <<particles, particleStartTime, hiddenTicks>>
       ELSE IF ~MatInvertible(modelMatrix)
       THEN /\ outcome' = "runtime_error"
            /\ UNCHANGED <<particles, particleStartTime, hiddenTicks>>
       ELSE LET dataPos == posToDataCoords(seedPoint)
                coords == <<RTrunc(dataPos[1]), RTrunc(dataPos[2]), RTrunc(dataPos[3])>>
            IN  IF SeedOutside(dataPos)
                THEN /\ outcome' = "outside bounds"
                     /\ UNCHANGED <<particles, particleStartTime, hiddenTicks>>
                ELSE /\ outcome' = "released"
                     /\ particleStartTime' = clock
                     /\ hiddenTicks' = 0
                     /\ \E jit \in JitterRuns, c \in {coords} :
                          particles' = [i \in 1..PoolSize |->
                                          ReleaseOne(i, c, jit[i], clock)]
    /\ UNCHANGED <<dataVars, markers, seedPoint, poseVars, visVars, zoomFactor, kernelCall,
                   volume, clock, advances, crashed>>

\* resetParticles()
ResetParticles ==
    /\ crashed = "no"
    /\ UNCHANGED threadVars
    /\ UNCHANGED clipVars
    /\ particles' = [i \in 1..PoolSize |-> ResetOne(particles[i])]
    /\ outcome' = "ok"
    /\ UNCHANGED <<dataVars, particleStartTime, markers, seedPoint, poseVars,
                   visVars, zoomFactor, kernelCall, volume, envVars, crashed>>

\* Which outcomes of an out-of-range read a frame can meet: none unless the
\* installed velocity array is shorter than the scalar grid.
OobChoices ==
    IF velocityData.null THEN {CHOOSE o \in OobReads : o.crash}
    ELSE IF Len(velocityData.vectors) >= dataDim[1] * dataDim[2] * dataDim[3]
    THEN {CHOOSE o \in OobReads : o.crash}
    ELSE OobReads

\* posToDataCoords with the inverse of the model matrix at hand
PosToData(inv, pos) ==
    VAdd(VScale(MatApply(inv, pos), RDiv(RInt(1), zoomFactor)), HalfExtent)

\* the slice points in data space
RECURSIVE DataPoints(_, _, _)
DataPoints(pts, inv, acc) ==
    IF Len(acc) = Len(pts) THEN acc
    ELSE DataPoints(pts, inv, Append(acc, PosToData(inv, pts[Len(acc) + 1])))

\* static const float epsilon = 0.1f
Epsilon == Rat(1, 10)
\* two slice points agree on one data-space coordinate
SameFace(d1, d2) ==
    \E k \in 1..3 : RLt(RAbs(RSub(d1[k], d2[k])), Epsilon)

\* The ordered pairs (i, j), i # j, in the order of the two nested loops
\* (the map "graph" is never filled, so only i = j is skipped).
PairSeq(n) ==
    [k \in 1..(n * (n - 1)) |->
        LET i == ((k - 1) \div (n - 1)) + 1
            r == ((k - 1) % (n - 1)) + 1
        IN  <<i, IF r < i THEN r ELSE r + 1>>]

\* lineVec of renderObjects: both ends of every kept pair, in loop order
LineVecOf(pts, dpts) ==
    LET kept == SelectSeq(PairSeq(Len(pts)),
                          LAMBDA pr : SameFace(dpts[pr[1]], dpts[pr[2]]))
    IN  [k \in 1..(2 * Len(kept)) |->
            IF k % 2 = 1 THEN pts[kept[(k + 1) \div 2][1]]
            ELSE pts[kept[k \div 2][2]]]

\* renderObjects() up to its "return": the "exists" scan, the slice quad,
\* the cross-section lines, the particle pass, the volume opacity that
\* follows from the scan, and the slice view.
RenderObjects(oob) ==
    /\ crashed = "no"
    /\ UNCHANGED threadVars
    /\ LET seen == AnyValid(particles)
       IN  IF ~seen /\ slice.null
           THEN \* slice->setOpaque(false) on the null pointer
                /\ crashed' = "null slice"
                /\ outcome' = "rendered"
                /\ UNCHANGED <<particles, markers, volume, lineVec, hiddenTicks>>
           ELSE IF slicePoints # <<>> /\ ~MatInvertible(modelMatrix)
           THEN \* posToDataCoords throws out of the frame
                /\ outcome' = "runtime_error"
                /\ markers' = {}
                /\ lineVec' = <<>>
                /\ UNCHANGED <<particles, volume, crashed, hiddenTicks>>
           ELSE /\ IF slicePoints = <<>> THEN lineVec' = <<>>
                   ELSE \E d \in {DataPoints(slicePoints, MatInverse(modelMatrix), <<>>)} :
                           lineVec' = LineVecOf(slicePoints, d)
                /\ \E r \in {ParticlePass(particles, 1, clock, oob, {})} :
                     /\ particles' = r.parts
                     /\ markers' = r.drawn
                     /\ crashed' = IF r.fault # "none" THEN r.fault
                                   ELSE IF slice.null THEN "null slice" ELSE "no"
                     /\ volume' = IF r.fault # "none" \/ volume.null THEN volume
                                  ELSE [volume EXCEPT
                                          !.opacity = IF seen THEN Rat(25, 1000) ELSE RInt(1),
                                          !.clip = IF seen THEN NoPlane ELSE @]
                /\ outcome' = "rendered"
                /\ hiddenTicks' = IF tangibleVisible THEN 0 ELSE hiddenTicks
    /\ UNCHANGED <<dataVars, particleStartTime, seedPoint, poseVars, visVars,
                   zoomFactor, kernelCall, clock, advances, settingVars, frameVars, objectVars>>

(***************************************************************************)
(* The frame update: setMatrices and updateSlicePlanes                     *)
(***************************************************************************)
\* app->getProjMatrix(): the projection of the view, an axis-aligned scaling
\* that looks down the negative Z axis; Matrix4::inverse() throws on a
\* matrix that has no inverse.
ProjMatrix == Mat(Diag(Vec(2, 2, -1)), VZero)
\* app->getDepthValue(d): the projected depth of the eye-space depth d
getDepthValue(d) == MatApply(ProjMatrix, <<RInt(0), RInt(0), d>>)[3]
\* proj[1][1]
Proj11 == ProjMatrix.lin[2][2]
\* "proj[0][0] = -proj[1][1] / 1.0f": the projection with aspect 1
ProjAspect1 ==
    [ProjMatrix EXCEPT !.lin = [@ EXCEPT ![1] = [@ EXCEPT ![1] = RNeg(Proj11)]]]
\* settings->clipDist
clipDist == RInt(1)
\* stylusEffectorDist
stylusEffectorDist == 24

\* std::max(dataSpacing.x*dataDim[0], std::max(dataSpacing.y*dataDim[1], dataSpacing.z*dataDim[2]))
MaxExtent ==
    LET ext(i) == RMul(dataSpacing[i], RInt(dataDim[i]))
    IN  RMax(ext(1), RMax(ext(2), ext(3)))
\* Vector3(dataDim[0], dataDim[1], dataDim[2]) * dataSpacing
BoxMax == VMul(Vec(dataDim[1], dataDim[2], dataDim[3]), dataSpacing)

\* dataCoordsToPos under the model matrix m
DataToPos(m, dataCoords) ==
    MatApply(m, VScale(VSub(dataCoords, HalfExtent), zoomFactor))

\* the effector position test of updateSlicePlanes (lines 826-827)
EffectorInside(dataPos) ==
    \A k \in 1..3 : RLe(RInt(0), dataPos[k]) /\ RLt(dataPos[k], BoxMax[k])

\* lowPassFilter(cur, prev, alpha)
lowPassFilter(cur, prev, alpha) == RAdd(prev, RMul(alpha, RSub(cur, prev)))

\* What the effector block leaves when it does not run.
EffectorIdle ==
    [thrown |-> FALSE, fault |-> "no", entered |-> FALSE,
     effectorIntersection |-> effectorIntersection,
     effectorIntersectionValid |-> effectorIntersectionValid,
     surfacePreview |-> surfacePreview, surfacePercentage |-> surfacePercentage,
     prevValue |-> prevValue, isosurfaceLow |-> isosurfaceLow]

\* The button branch: the scalar under the effector sets the preview
\* percentage and the value of the low-resolution isosurface.
ButtonStage(e) ==
    IF ~buttonIsPressed THEN e
    ELSE IF data.null THEN [e EXCEPT !.fault = "null probeFilter", !.surfacePreview = TRUE]
    ELSE LET value == IF RIsZero(prevValue) THEN data.probe
                      ELSE lowPassFilter(data.probe, prevValue, Rat(1, 2))
         IN  IF volume.null
             THEN [e EXCEPT !.fault = "null volume", !.surfacePreview = TRUE,
                            !.prevValue = value]
             ELSE [e EXCEPT
                     !.surfacePreview = TRUE,
                     !.prevValue = value,
                     !.surfacePercentage =
                         RDiv(RSub(value, volume.range[1]),
                              RSub(volume.range[2], volume.range[1])),
                     !.isosurfaceLow =
                         IF isosurfaceLow.null THEN @ ELSE [@ EXCEPT !.value = value]]

\* The effector block of updateSlicePlanes (lines 820-983) for the model
\* matrix m and the stylus matrix sm, last step first: each step names one
\* local variable of the block and hands it to the step above it.
\* ... from the answer r of rayAABBIntersection on
EffectorHit(m, dataPos, dataDir, r) ==
    LET hit == r.hit /\ FGt(r.tmax, RInt(0))
    IN  InOrder(r,
          ButtonStage(
            [EffectorIdle EXCEPT
               !.entered = TRUE,
               !.effectorIntersectionValid = hit,
               !.effectorIntersection =
                   IF hit THEN DataToPos(m, VAdd(dataPos, VScale(dataDir, r.tmax)))
                   ELSE @]))
\* ... from dataDir on
EffectorAlong(m, dataPos, dataDir) ==
    InOrder(dataDir,
      EffectorHit(m, dataPos, dataDir,
                  rayAABBIntersection(dataPos, dataDir, VZero, BoxMax,
                                      RInt(0), RInt(10000))))
\* ... from dataPos on
EffectorInData(m, sm, dataPos) ==
    IF ~EffectorInside(dataPos)
    THEN [EffectorIdle EXCEPT !.effectorIntersectionValid = FALSE]
    ELSE IF ~MatInvertible(sm) THEN [EffectorIdle EXCEPT !.thrown = TRUE]
    ELSE EffectorAlong(m, dataPos,
                       M3Apply(M3Mul(M3Transpose(m.lin),
                                     M3Transpose(MatInverse(sm).lin)), UnitX))
EffectorStage(m, sm) ==
    IF ~(stylusVisible /\ tangibleVisible) THEN EffectorIdle
    ELSE IF ~MatInvertible(m) THEN [EffectorIdle EXCEPT !.thrown = TRUE]
    ELSE LET size == RMul(Rat(1, 2), RAdd(RInt(stylusEffectorDist), MaxExtent))
         IN  EffectorInData(m, sm,
               PosToData(MatInverse(m),
                 MatApply(MatMul(sm, Translation(
                              VScale(<<RNeg(size), RInt(0), RInt(0)>>, zoomFactor))),
                          VZero)))

\* What a plane computation leaves when it writes nothing.
PlaneIdle ==
    [set |-> FALSE, thrown |-> FALSE, asked |-> FALSE,
     slicePoint |-> slicePoint, sliceNormal |-> sliceNormal, sliceDepth |-> sliceDepth,
     slice |-> slice, sliceModelMatrix |-> sliceModelMatrix,
     clipAxis |-> clipAxis, lockedClipAxis |-> lockedClipAxis,
     wasVisible |-> wasVisible, prevPos |-> prevPos]

\* slice->setSlice(slicingMatrix, depth, zoom) with slicingMatrix positioned at pos
SetSlice(lin, pos, depth) ==
    [slice EXCEPT !.set = TRUE, !.matrix = Mat(lin, pos), !.depth = depth,
                  !.zoom = zoomFactor]

\* static const float weight = 0.8f
CameraWeight == Rat(4, 5)

\* computeCameraClipPlane(slicePoint, sliceNormal) under the model matrix m,
\* last step first.
\* ... from pt on
CameraPoint(inv, slicingLin, pos, depth, pt) ==
    InOrder(pt,
      [PlaneIdle EXCEPT
         !.set = TRUE,
         !.wasVisible = TRUE,
         !.prevPos = pos,
         !.sliceDepth = depth,
         !.slice = SetSlice(slicingLin, PosToData(inv, pt), depth),
         !.slicePoint = pt,
         !.sliceNormal = VNeg(UnitZ)])
\* ... from depth on
CameraDepth(inv, slicingLin, pos, depth) ==
    InOrder(depth,
      CameraPoint(inv, slicingLin, pos, depth,
                  MatApply(MatInverse(ProjMatrix),
                           <<RInt(0), RInt(0), getDepthValue(depth)>>)))
\* ... from the filtered position pos on
CameraFiltered(m, inv, slicingLin, pos) ==
    InOrder(pos, CameraDepth(inv, slicingLin, pos, MatApply(m, pos)[3]))
\* ... from the unfiltered position pos0 and the camera direction n on
CameraStart(m, inv, slicingLin, pos0, n) ==
    InOrder(<<slicingLin, pos0, n>>,
      CameraFiltered(m, inv, slicingLin,
        IF wasVisible
        THEN VAdd(VAdd(pos0, VNeg(VProject(n, pos0))),
                  VProject(n, VAdd(VScale(pos0, CameraWeight),
                                   VScale(prevPos, RSub(RInt(1), CameraWeight)))))
        ELSE pos0))
\* ... from the inverse of the model matrix on
CameraInverse(m, inv) ==
    InOrder(inv,
      CameraStart(m, inv, MatInverse(MatMul(ProjMatrix, m)).lin,
                  MatApply(inv, <<RInt(0), RInt(0), clipDist>>),
                  VNormalized(M3Apply(M3Transpose(m.lin), UnitZ))))
computeCameraClipPlane(m) ==
    IF ~tangibleVisible THEN [PlaneIdle EXCEPT !.wasVisible = FALSE]
    ELSE IF ~MatInvertible(m) THEN [PlaneIdle EXCEPT !.thrown = TRUE]
    ELSE CameraInverse(m, MatInverse(m))

\* The candidate axis after the three comparisons of computeAxisClipPlane.
Candidate(xDot, yDot, zDot, margin, old) ==
    LET ax == RAbs(xDot)
        ay == RAbs(yDot)
        az == RAbs(zDot)
    IN  IF RLt(RAdd(ay, margin), ax) /\ RLt(RAdd(az, margin), ax)
        THEN (IF RLt(xDot, RInt(0)) THEN CLIP_AXIS_X ELSE CLIP_NEG_AXIS_X)
        ELSE IF RLt(RAdd(ax, margin), ay) /\ RLt(RAdd(az, margin), ay)
        THEN (IF RLt(yDot, RInt(0)) THEN CLIP_AXIS_Y ELSE CLIP_NEG_AXIS_Y)
        ELSE IF RLt(RAdd(ax, margin), az) /\ RLt(RAdd(ay, margin), az)
        THEN (IF RLt(zDot, RInt(0)) THEN CLIP_AXIS_Z ELSE CLIP_NEG_AXIS_Z)
        ELSE old

\* A margin that is there only while an axis is locked.
C21_MarginWhenLocked == IF lockedClipAxis # CLIP_NONE THEN Rat(1, 10) ELSE RInt(0)

\* const float margin = (state->clipAxis != CLIP_NONE ? 0.1f : 0.0f)
margin == IF clipAxis # CLIP_NONE THEN Rat(1, 10) ELSE RInt(0)

\* the unit vector of a clip axis, and the axis of opposite sign
AxisVector(a) ==
    CASE a = CLIP_AXIS_X -> UnitX
      [] a = CLIP_AXIS_Y -> UnitY
      [] a = CLIP_AXIS_Z -> UnitZ
      [] a = CLIP_NEG_AXIS_X -> VNeg(UnitX)
      [] a = CLIP_NEG_AXIS_Y -> VNeg(UnitY)
      [] a = CLIP_NEG_AXIS_Z -> VNeg(UnitZ)
NegAxis(a) ==
    CASE a = CLIP_AXIS_X -> CLIP_NEG_AXIS_X
      [] a = CLIP_AXIS_Y -> CLIP_NEG_AXIS_Y
      [] a = CLIP_AXIS_Z -> CLIP_NEG_AXIS_Z
      [] a = CLIP_NEG_AXIS_X -> CLIP_AXIS_X
      [] a = CLIP_NEG_AXIS_Y -> CLIP_AXIS_Y
      [] a = CLIP_NEG_AXIS_Z -> CLIP_AXIS_Z

\* the lock after the sign test: it flips when its axis points away
LockAfterSignTest(normalMatrix, locked) ==
    IF locked = CLIP_NONE THEN locked
    ELSE IF RLt(RInt(0), VDot(VNormalized(M3Apply(normalMatrix, AxisVector(locked))),
                              UnitZ))
         THEN NegAxis(locked) ELSE locked

\* The lock replaced by its candidate whenever there is one.
C6_ChosenIsCandidate(locked, candidate) ==
    IF candidate # CLIP_NONE THEN candidate ELSE locked

\* ca: the locked axis if there is one, else the candidate
ChosenAxis(locked, candidate) ==
    IF locked # CLIP_NONE THEN locked ELSE candidate

\* The rotation matrix of the quaternion "rot" chosen for a clip axis.
AxisRot(ca) ==
    CASE ca = CLIP_AXIS_X ->
           <<Vec(0, 0, -1), Vec(0, -1, 0), Vec(-1, 0, 0)>>
      [] ca = CLIP_AXIS_Y ->
           <<Vec(-1, 0, 0), Vec(0, 0, -1), Vec(0, -1, 0)>>
      [] ca = CLIP_AXIS_Z -> M3Identity
      [] ca = CLIP_NEG_AXIS_X ->
           <<Vec(0, 0, 1), Vec(0, -1, 0), Vec(1, 0, 0)>>
      [] ca = CLIP_NEG_AXIS_Y ->
           <<Vec(-1, 0, 0), Vec(0, 0, 1), Vec(0, 1, 0)>>
      [] ca = CLIP_NEG_AXIS_Z ->
           <<Vec(1, 0, 0), Vec(0, -1, 0), Vec(0, 0, -1)>>

\* A lock that is held whatever the slice holds.
C25_LockHeld(ca, empty) == ca
\* the test of slice->isEmpty() that ends computeAxisClipPlane
LockAfterEmptyTest(ca, empty) == IF ~empty THEN ca ELSE CLIP_NONE

\* computeAxisClipPlane(slicePoint, sliceNormal) under the model matrix m,
\* up to the test of slice->isEmpty(): "asked" tells that the test is
\* reached, and lockedClipAxis then holds the chosen axis ca.  Last step
\* first.
\* ... from slicingMatrix on
AxisSlice(m, inv, normalMatrix, candidate, ca, pt2, dataCoords, slicingLin) ==
    LET size == RMul(Rat(1, 2), MaxExtent)
        quad == VScale(<<size, size, RInt(0)>>, zoomFactor)
    IN  InOrder(slicingLin,
          [PlaneIdle EXCEPT
             !.set = TRUE,
             !.clipAxis = candidate,
             !.asked = TRUE,
             !.lockedClipAxis = ca,
             !.slice = SetSlice(slicingLin, dataCoords,
                                RMul(RNeg(Proj11), RMul(size, zoomFactor))),
             !.sliceModelMatrix =
                 MatMul(m, makeTransform(MatApply(inv, pt2), AxisRot(ca), quad)),
             !.slicePoint = pt2,
             !.sliceNormal = M3Apply(normalMatrix, AxisVector(ca))])
\* ... from dataCoords on
AxisData(m, inv, normalMatrix, candidate, ca, pt2, dataCoords) ==
    InOrder(dataCoords,
      AxisSlice(m, inv, normalMatrix, candidate, ca, pt2, dataCoords,
                MatInverse(MatMul(ProjAspect1,
                                  makeTransform(dataCoords, AxisRot(ca),
                                                Vec(1, 1, 1)))).lin))
\* ... from the point pt2 projected on the axis on
AxisProjected(m, inv, normalMatrix, candidate, ca, pt2) ==
    InOrder(pt2, AxisData(m, inv, normalMatrix, candidate, ca, pt2,
                          PosToData(inv, pt2)))
\* ... from the point pt on the view axis on
AxisPoint(m, inv, normalMatrix, candidate, ca, pt) ==
    LET axis == AxisVector(ca)
        absAxis == <<RAbs(axis[1]), RAbs(axis[2]), RAbs(axis[3])>>
    IN  InOrder(pt,
          AxisProjected(m, inv, normalMatrix, candidate, ca,
                        MatApply(m, VScale(absAxis, VDot(absAxis, pt)))))
\* ... from the candidate and the lock after its sign test on
AxisChoice(m, inv, normalMatrix, candidate, locked) ==
    IF InOrder(<<candidate, locked>>, ChosenAxis(locked, candidate) = CLIP_NONE)
    THEN [PlaneIdle EXCEPT !.clipAxis = candidate, !.lockedClipAxis = locked]
    ELSE AxisPoint(m, inv, normalMatrix, candidate, ChosenAxis(locked, candidate),
                   MatApply(inv, MatApply(MatInverse(ProjMatrix),
                            <<RInt(0), RInt(0), getDepthValue(clipDist)>>)))
\* ... from xDot, yDot and zDot on
AxisDots(m, inv, normalMatrix, xDot, yDot, zDot) ==
    InOrder(<<xDot, yDot, zDot>>,
      AxisChoice(m, inv, normalMatrix,
                 Candidate(xDot, yDot, zDot, margin, clipAxis),
                 LockAfterSignTest(normalMatrix, lockedClipAxis)))
\* ... from normalMatrix on
AxisNormal(m, inv, normalMatrix) ==
    InOrder(normalMatrix,
      AxisDots(m, inv, normalMatrix,
               VDot(VNormalized(M3Apply(normalMatrix, UnitX)), UnitZ),
               VDot(VNormalized(M3Apply(normalMatrix, UnitY)), UnitZ),
               VDot(VNormalized(M3Apply(normalMatrix, UnitZ)), UnitZ)))
\* ... from the inverse of the model matrix on
AxisInverse(m, inv) == InOrder(inv, AxisNormal(m, inv, M3Transpose(inv.lin)))
computeAxisClipPlane(m) ==
    IF tangibleVisible /\ ~MatInvertible(m) THEN [PlaneIdle EXCEPT !.thrown = TRUE]
    ELSE IF ~tangibleVisible
    THEN [PlaneIdle EXCEPT !.clipAxis = CLIP_NONE, !.lockedClipAxis = CLIP_NONE]
    ELSE AxisInverse(m, MatInverse(m))

\* computeStylusClipPlane(slicePoint, sliceNormal): an exception thrown by
\* Matrix4::inverse() inside its try block makes it return false.  Last
\* step first.
\* ... from slicingMatrix and pt2 on
StylusSlice(m, sm, planeMatrix, slicingLin, pt2) ==
    LET size == RMul(Rat(1, 2), RAdd(RInt(60), MaxExtent))
        quad == VScale(<<size, size, RInt(0)>>, zoomFactor)
    IN  InOrder(<<slicingLin, pt2>>,
          [PlaneIdle EXCEPT
             !.set = TRUE,
             !.slice = SetSlice(slicingLin, PosToData(MatInverse(m), pt2),
                                RMul(RNeg(Proj11), RMul(size, zoomFactor))),
             !.sliceModelMatrix =
                 MatMul(planeMatrix, makeTransform(VZero, M3Identity, quad)),
             !.slicePoint = pt2,
             !.sliceNormal = M3Apply(M3Transpose(MatInverse(sm).lin), UnitZ)])
\* ... from planeMatrix on
StylusPlane(m, sm, planeMatrix) ==
    InOrder(planeMatrix,
      StylusSlice(m, sm, planeMatrix,
                  MatInverse(MatMul(MatMul(ProjAspect1, MatInverse(planeMatrix)),
                                    m)).lin,
                  MatApply(planeMatrix, VZero)))
\* ... from the offset of the plane on
StylusOffset(m, sm, offset) ==
    InOrder(offset, StylusPlane(m, sm, MatMul(sm, Translation(offset))))
computeStylusClipPlane(m, sm) ==
    IF ~stylusVisible THEN PlaneIdle
    ELSE IF ~MatInvertible(sm) \/ ~MatInvertible(m) THEN PlaneIdle
    ELSE StylusOffset(m, sm,
           VProjectOnPlane(MatApply(MatMul(MatInverse(sm), m), VZero), UnitZ))

\* The corners of the data box from which the rays of one family start,
\* and the families in the order of updateSlicePlanes (lines 1044-1075).
RayStarts(k) ==
    LET b == BoxMax
        o == RInt(0)
    IN  CASE k = 1 -> << <<o, o, o>>, <<o, b[2], o>>, <<o, o, b[3]>>, <<o, b[2], b[3]>> >>
          [] k = 2 -> << <<o, o, o>>, <<b[1], o, o>>, <<o, o, b[3]>>, <<b[1], o, b[3]>> >>
          [] k = 3 -> << <<o, o, o>>, <<b[1], o, o>>, <<o, b[2], o>>, <<b[1], b[2], o>> >>
RayAxis(k) ==
    LET b == BoxMax
        o == RInt(0)
    IN  CASE k = 1 -> <<b[1], o, o>>
          [] k = 2 -> <<o, b[2], o>>
          [] k = 3 -> <<o, o, b[3]>>

\* rayPlaneIntersection(pt, dir, t) for the plane (point, normal); dot is
\* its local variable of that name
RayPlaneAt(m, pt, point, normal, dot) ==
    IF RIsZero(dot) THEN [hit |-> FALSE, t |-> RInt(0)]
    ELSE [hit |-> TRUE,
          t |-> RNeg(RDiv(RSub(VDot(DataToPos(m, pt), normal), VDot(normal, point)),
                          dot))]
rayPlaneIntersection(m, pt, dir, point, normal) ==
    RayPlaneAt(m, pt, point, normal, VDot(dir, normal))

\* Test i of the slice-cube intersection (lines 1044-1075): the points kept
\* so far, with the point of ray i added when the ray meets the plane within
\* the edge.  The ray starts at pt and runs along dir; r is the answer of
\* rayPlaneIntersection.
SliceHit(m, pt, dir, r, acc) ==
    IF r.hit /\ RLe(RInt(0), r.t) /\ RLe(r.t, zoomFactor)
    THEN Append(acc, VAdd(DataToPos(m, pt), VScale(dir, r.t)))
    ELSE acc
SliceEdge(m, pt, dir, point, normal, acc) ==
    InOrder(<<pt, dir>>,
      SliceHit(m, pt, dir, rayPlaneIntersection(m, pt, dir, point, normal), acc))
SliceTest(i, m, normalMatrix, point, normal, acc) ==
    SliceEdge(m, RayStarts(((i - 1) \div 4) + 1)[((i - 1) % 4) + 1],
              M3Apply(normalMatrix, RayAxis(((i - 1) \div 4) + 1)),
              point, normal, acc)

\* The slice-cube intersection: the 12 tests in order, from test i on.
RECURSIVE SlicePointsFrom(_, _, _, _, _, _)
SlicePointsFrom(i, m, normalMatrix, point, normal, acc) ==
    IF i > 12 \/ Len(acc) >= i THEN acc
    ELSE SlicePointsFrom(i + 1, m, normalMatrix, point, normal,
                         SliceTest(i, m, normalMatrix, point, normal, acc))

\* isosurface->setClipPlane(n.x, n.y, n.z, -n.dot(p)) or clearClipPlane()
ClipPlaneOf(point, normal) ==
    [set |-> TRUE, normal |-> normal, d |-> RNeg(VDot(normal, point))]
WithClip(obj, plane) == IF obj.null THEN obj ELSE [obj EXCEPT !.clip = plane]

\* The plane computation selected by the settings.
PlaneStage(m, sm) ==
    IF ~(showSlice /\ ~slice.null) THEN PlaneIdle
    ELSE CASE sliceType = SLICE_CAMERA -> computeCameraClipPlane(m)
           [] sliceType = SLICE_AXIS -> computeAxisClipPlane(m)
           [] sliceType = SLICE_STYLUS -> computeStylusClipPlane(m, sm)

\* The history after a plane computation: a camera plane has been computed
\* exactly when computeCameraClipPlane returned true.
HistoryAfter(pl) ==
    IF pl.set /\ sliceType = SLICE_CAMERA THEN FALSE ELSE noPlaneSinceHidden

\* What slice->isEmpty() can answer: the slice texture is filled by the
\* renderer, out of reach of this file.
EmptyAnswers(asked) == IF asked THEN BOOLEAN ELSE {FALSE}

\* setMatrices(volumeMatrix, stylusMatrix): both matrices are stored, then
\* updateSlicePlanes() runs; an exception thrown by Matrix4::inverse()
\* outside a try block leaves through setMatrices (outcome "frame_error").
SetMatrices(volumeMatrix, stylusMatrix) ==
    /\ crashed = "no"
    /\ UNCHANGED threadVars
    /\ modelMatrix' = volumeMatrix
    /\ stylusModelMatrix' = stylusMatrix
    /\ \E e \in {EffectorStage(volumeMatrix, stylusMatrix)} :
         /\ effectorIntersection' = e.effectorIntersection
         /\ effectorIntersectionValid' = e.effectorIntersectionValid
         /\ surfacePreview' = e.surfacePreview
         /\ surfacePercentage' = e.surfacePercentage
         /\ prevValue' = e.prevValue
         /\ crashed' = e.fault
         /\ IF e.thrown \/ e.fault # "no"
            THEN /\ outcome' = IF e.thrown THEN "frame_error" ELSE "frame"
                 /\ isosurfaceLow' = e.isosurfaceLow
                 /\ UNCHANGED <<axisVars, planeVars, cameraVars, slice, isosurface, volume>>
            ELSE \E pl \in {PlaneStage(volumeMatrix, stylusMatrix)} :
                 /\ clipAxis' = pl.clipAxis
                 /\ \E empty \in EmptyAnswers(pl.asked) :
                      /\ sliceEmpty' = empty
                      /\ lockedClipAxis' = IF pl.asked
                                           THEN LockAfterEmptyTest(pl.lockedClipAxis, empty)
                                           ELSE pl.lockedClipAxis
                 /\ wasVisible' = pl.wasVisible
                 /\ prevPos' = pl.prevPos
                 /\ noPlaneSinceHidden' = HistoryAfter(pl)
                 /\ sliceDepth' = pl.sliceDepth
                 /\ slice' = pl.slice
                 /\ sliceModelMatrix' = pl.sliceModelMatrix
                 /\ slicePoint' = pl.slicePoint
                 /\ sliceNormal' = pl.sliceNormal
                 /\ IF pl.thrown
                    THEN /\ outcome' = "frame_error"
                         /\ isosurfaceLow' = e.isosurfaceLow
                         /\ UNCHANGED <<slicePoints, isosurface, volume>>
                    ELSE /\ outcome' = "frame"
                         /\ IF pl.set
                            THEN \E plane \in {ClipPlaneOf(pl.slicePoint, pl.sliceNormal)} :
                                 /\ isosurface' = WithClip(isosurface, plane)
                                 /\ isosurfaceLow' = WithClip(e.isosurfaceLow, plane)
                                 /\ volume' = WithClip(volume, plane)
                                 /\ slicePoints' =
                                      SlicePointsFrom(1, volumeMatrix,
                                          M3Transpose(MatInverse(volumeMatrix).lin),
                                          pl.slicePoint, pl.sliceNormal, <<>>)
                            ELSE /\ isosurface' = WithClip(isosurface, NoPlane)
                                 /\ isosurfaceLow' = WithClip(e.isosurfaceLow, NoPlane)
                                 /\ volume' = WithClip(volume, NoPlane)
                                 /\ UNCHANGED slicePoints
    /\ UNCHANGED <<dataVars, poolVars, seedPoint, visVars, zoomFactor, kernelCall, envVars,
                   settingVars, lineVec>>

\* The tracker reports the stylus as visible or hidden.
SetStylusVisible(b) ==
    /\ crashed = "no"
    /\ UNCHANGED threadVars
    /\ stylusVisible # b
    /\ stylusVisible' = b
    /\ outcome' = "ok"
    /\ UNCHANGED <<dataVars, poolVars, seedPoint, poseVars, tangibleVisible,
                   zoomFactor, kernelCall, volume, envVars, crashed, clipVars>>

\* The control surface switches the slice on or off, or selects its mode.
SetShowSlice(b) ==
    /\ crashed = "no"
    /\ UNCHANGED threadVars
    /\ showSlice # b
    /\ showSlice' = b
    /\ outcome' = "ok"
    /\ UNCHANGED <<dataVars, poolVars, seedPoint, poseVars, visVars, zoomFactor, kernelCall,
                   volume, envVars, crashed, sliceType, buttonIsPressed, frameVars,
                   objectVars, lineVec>>
SetSliceType(t) ==
    /\ crashed = "no"
    /\ UNCHANGED threadVars
    /\ sliceType # t
    /\ sliceType' = t
    /\ outcome' = "ok"
    /\ UNCHANGED <<dataVars, poolVars, seedPoint, poseVars, visVars, zoomFactor, kernelCall,
                   volume, envVars, crashed, showSlice, buttonIsPressed, frameVars,
                   objectVars, lineVec>>

\* settings->considerX, considerY, considerZ as updateSurfacePreview finds them
ConsiderFlags == {<<1, 1, 1>>, <<0, 1, 0>>}
\* the candidate axis updateSurfacePreview leaves
ConsideredAxis(c) ==
    IF c[1] + c[2] + c[3] = 3 THEN CLIP_NONE
    ELSE IF c[1] = 1 THEN CLIP_AXIS_X
    ELSE IF c[2] = 1 THEN CLIP_AXIS_Y
    ELSE IF c[3] = 1 THEN CLIP_AXIS_Z
    ELSE clipAxis

\* buttonPressed()
ButtonPressed ==
    /\ crashed = "no"
    /\ UNCHANGED threadVars
    /\ ~buttonIsPressed
    /\ buttonIsPressed' = TRUE
    /\ outcome' = "ok"
    /\ UNCHANGED <<dataVars, poolVars, seedPoint, poseVars, visVars, zoomFactor, kernelCall,
                   volume, envVars, crashed, showSlice, sliceType, frameVars,
                   objectVars, lineVec>>

\* buttonReleased(): the preview ends and updateSurfacePreview() hands the
\* percentage to the isosurface and rewrites the candidate axis.
ButtonReleased(c) ==
    /\ crashed = "no"
    /\ UNCHANGED threadVars
    /\ buttonIsPressed
    /\ buttonIsPressed' = FALSE
    /\ surfacePreview' = FALSE
    /\ isosurface' = IF isosurface.null THEN isosurface
                     ELSE [isosurface EXCEPT !.percentage = surfacePercentage]
    /\ clipAxis' = ConsideredAxis(c)
    /\ outcome' = "ok"
    /\ UNCHANGED <<dataVars, poolVars, seedPoint, poseVars, visVars, zoomFactor, kernelCall,
                   volume, envVars, crashed, showSlice, sliceType, surfacePercentage,
                   prevValue, lockedClipAxis, sliceEmpty, planeVars, effectorVars,
                   cameraVars,
                   slice, isosurfaceLow, lineVec>>

\* The tracker reports the tangible as visible or hidden.
SetTangibleVisible(b) ==
    /\ crashed = "no"
    /\ UNCHANGED threadVars
    /\ UNCHANGED <<settingVars, previewVars, axisVars, planeVars, effectorVars,
                   wasVisible, prevPos, objectVars, lineVec>>
    /\ tangibleVisible # b
    /\ tangibleVisible' = b
    /\ noPlaneSinceHidden' = (noPlaneSinceHidden \/ ~b)
    /\ outcome' = "ok"
    /\ UNCHANGED <<dataVars, poolVars, seedPoint, poseVars, stylusVisible,
                   zoomFactor, kernelCall, volume, envVars, crashed>>

\* Wall-clock time passes.
ClockSteps == {1, 234 * TicksPerMs, 1000 * TicksPerMs}
AdvanceClock(dt) ==
    /\ crashed = "no"
    /\ UNCHANGED threadVars
    /\ UNCHANGED clipVars
    /\ advances < MaxAdvances
    /\ clock' = clock + dt
    /\ advances' = advances + 1
    /\ hiddenTicks' = hiddenTicks + (IF tangibleVisible THEN 0 ELSE dt)
    /\ UNCHANGED <<dataVars, poolVars, seedPoint, poseVars, visVars, zoomFactor, kernelCall,
                   volume, outcome, crashed>>

\* The calls of the application at one wall-clock instant: every file, every
\* seed point, and frames that find no time elapsed.
Next ==
    \/ \E f \in DataFiles : LoadDataSet(f)
    \/ \E f \in VelocityFiles : LoadVelocityDataSet(f)
    \/ \E s \in SeedPoints : SetSeedPoint(s)
    \/ ReleaseParticles
    \/ ResetParticles
    \/ \E oob \in OobChoices : RenderObjects(oob)
    \/ \E b \in BOOLEAN : SetTangibleVisible(b)

Spec == Init /\ [][Next]_vars

\* The same calls while the wall clock advances between them, on the files
\* that load and validate.
TickDataFiles == {f \in DataFiles : ~LoadThrows(f)}
TickVelocityFiles ==
    {f \in VelocityFiles : ~LoadThrows(f) /\ f.hasVectors /\ GetDataDimension(f.dim) = 3}

NextTick ==
    \/ \E f \in TickDataFiles : LoadDataSet(f)
    \/ \E f \in TickVelocityFiles : LoadVelocityDataSet(f)
    \/ \E s \in SeedPoints : SetSeedPoint(s)
    \/ ReleaseParticles
    \/ ResetParticles
    \/ \E oob \in OobChoices : RenderObjects(oob)
    \/ \E b \in BOOLEAN : SetTangibleVisible(b)
    \/ \E dt \in ClockSteps : AdvanceClock(dt)

SpecTick == Init /\ [][NextTick]_vars

\* Loads, releases and ticks on every velocity file that a reader accepts
\* and that carries vectors, whatever its dimensions.
SampleVelocityFiles == {f \in VelocityFiles : ~LoadThrows(f) /\ f.hasVectors}
SampleClockSteps == {250 * TicksPerMs}

NextSample ==
    \/ \E f \in TickDataFiles : LoadDataSet(f)
    \/ \E f \in SampleVelocityFiles : LoadVelocityDataSet(f)
    \/ \E s \in SeedPoints : SetSeedPoint(s)
    \/ ReleaseParticles
    \/ \E oob \in OobChoices : RenderObjects(oob)
    \/ \E b \in BOOLEAN : SetTangibleVisible(b)
    \/ \E dt \in SampleClockSteps : AdvanceClock(dt)

SpecSample == Init /\ [][NextSample]_vars

\* The poses the tracker reports for the tangible: at rest, a rotation that
\* leaves the three axes nearly tied (dot products 6/11, 6/11 and 7/11 with
\* the view axis, X ahead), and turned over.
Elevenths(m) == [i \in 1..3 |-> [j \in 1..3 |-> Rat(m[i][j], 11)]]
NearX == Mat(Elevenths(<<<<-6, 9, -2>>, <<-6, -2, 9>>, <<7, 6, 6>>>>), VZero)
TurnedOver == Mat(Diag(Vec(1, -1, -1)), VZero)
AxisPoses == {MatIdentity, NearX, TurnedOver}
\* The poses of the stylus: at rest, with its effector at the centre of the
\* data, and flattened (singular) at either place.
StylusAtData == Translation(Vec(13, 0, 0))
StylusFlatAtData == Mat(Diag(Vec(1, 1, 0)), Vec(13, 0, 0))
StylusFlat == Mat(Diag(Vec(1, 1, 0)), VZero)
StylusPoses == {MatIdentity, StylusAtData, StylusFlatAtData, StylusFlat}

\* The frame specifications start from one of the states construction can
\* leave: the frame update reads neither the pool nor, before a dataset is
\* loaded and with the effector outside, more of dataDim than its sign.
InitFrames == Init /\ dataDim = <<0, 0, 0>> /\ particles[1].delayMs = 0

\* The two modes that keep no history of earlier poses.
ClipSliceTypes == {SLICE_AXIS, SLICE_STYLUS}

\* Frames of the input thread with the stylus out of sight: the tangible
\* moves, comes and goes, the slice is switched and the button is used.
NextAxis ==
    \/ \E f \in TickDataFiles : LoadDataSet(f)
    \/ \E m \in AxisPoses : SetMatrices(m, MatIdentity)
    \/ \E b \in BOOLEAN : SetTangibleVisible(b)
    \/ \E b \in BOOLEAN : SetShowSlice(b)
    \/ \E t \in ClipSliceTypes : SetSliceType(t)
    \/ ButtonPressed
    \/ \E c \in ConsiderFlags : ButtonReleased(c)

SpecAxis == InitFrames /\ [][NextAxis]_vars

\* Frames of the input thread with the tangible at rest: the stylus moves,
\* comes and goes, and the slice is switched.
NextStylus ==
    \/ \E f \in TickDataFiles : LoadDataSet(f)
    \/ \E sm \in StylusPoses : SetMatrices(MatIdentity, sm)
    \/ \E b \in BOOLEAN : SetTangibleVisible(b)
    \/ \E b \in BOOLEAN : SetStylusVisible(b)
    \/ \E b \in BOOLEAN : SetShowSlice(b)
    \/ \E t \in ClipSliceTypes : SetSliceType(t)

SpecStylus == InitFrames /\ [][NextStylus]_vars

\* A dataset of 2 x 2 x 2 voxels spaced 3, 4 and 1 apart, and the stylus
\* turned so that its plane holds two opposite vertical edges of the data
\* box (the plane 4x = 3y through the centre of the box).
CrossDataFiles ==
    { [name |-> "slab341.vtk", ext |-> "vtk", readable |-> TRUE,
       dim |-> <<2, 2, 2>>, spacing |-> Vec(3, 4, 1),
       probe |-> Rat(1, 2), range |-> <<RInt(0), RInt(2)>>] }
StylusDiagonal ==
    Mat(<<<<RInt(0), Rat(-3, 5), Rat(4, 5)>>,
          <<RInt(0), Rat(-4, 5), Rat(-3, 5)>>,
          <<RInt(1), RInt(0), RInt(0)>>>>, VZero)
CrossPoses == {MatIdentity, StylusDiagonal}

\* Frames that cut the data box with the plane of the stylus.
NextCross ==
    \/ \E f \in TickDataFiles \cup CrossDataFiles : LoadDataSet(f)
    \/ \E sm \in CrossPoses : SetMatrices(MatIdentity, sm)
    \/ \E b \in BOOLEAN : SetTangibleVisible(b)
    \/ \E b \in BOOLEAN : SetStylusVisible(b)
    \/ \E b \in BOOLEAN : SetShowSlice(b)

SpecCross == InitFrames /\ [][NextCross]_vars

\* The poses of the tangible at two depths along the view axis, and the
\* camera mode with one mode to switch to.
CameraPoses == {MatIdentity, Translation(Vec(0, 0, -3))}
CameraSliceTypes == {SLICE_CAMERA, SLICE_STYLUS}

\* The filter of computeCameraClipPlane blends each new depth with the
\* remembered one, four parts to one: the remembered depth is followed
\* through MaxBlends blends, a depth in fifths to the power MaxBlends.
MaxBlends == 2
BlendsLeft == prevPos[3][2] < 5 ^ MaxBlends

\* Frames in which the slice follows the camera: the tangible moves in
\* depth, comes and goes, and the slice is switched between its modes.
NextCamera ==
    \/ \E f \in TickDataFiles : LoadDataSet(f)
    \/ \E m \in CameraPoses : BlendsLeft /\ SetMatrices(m, MatIdentity)
    \/ \E b \in BOOLEAN : SetTangibleVisible(b)
    \/ \E b \in BOOLEAN : SetShowSlice(b)
    \/ \E t \in CameraSliceTypes : SetSliceType(t)

SpecCamera == InitFrames /\ [][NextCamera]_vars

(***************************************************************************)
(* The two threads.  The input thread calls setMatrices, releaseParticles  *)
(* and resetParticles, the render thread calls renderObjects; a call       *)
(* advances from one synchronized section to the next, and a section on a  *)
(* cell is entered only while the other thread is outside the sections on  *)
(* that cell.  Of how a call ends, "outcome" keeps the exception that      *)
(* leaves it; the local "exists" is gone when renderObjects returns.       *)
(***************************************************************************)
Cells ==
    {"particles", "modelMatrix", "stylusModelMatrix", "slicePoints", "slice",
     "sliceModelMatrix", "effectorIntersection", "isosurface", "isosurfaceLow",
     "volume", "outline"}

Free(c, t) == \A u \in Threads \ {t} : c \notin held[u]

\* The inverted nesting of the cross-section block of renderObjects.
C9_PointsSectionInverted == <<"modelMatrix", "slicePoints">>

\* The sections that enter a second cell while they hold one, as
\* <<outer cell, inner cell>>: the effector block and the cross-section
\* block of updateSlicePlanes (dataCoordsToPos locks modelMatrix), and the
\* cross-section block of renderObjects (posToDataCoords locks modelMatrix).
EffectorSection == <<"effectorIntersection", "modelMatrix">>
PointsSectionOfUpdate == <<"slicePoints", "modelMatrix">>
PointsSectionOfRender == <<"slicePoints", "modelMatrix">>

\* The cells the next step of thread t has to find free.
Wants(t) ==
    CASE pc[t] = "r_model" -> {"modelMatrix"}
      [] pc[t] = "r_iso" -> {"isosurface"}
      [] pc[t] = "r_s2mm" -> {"sliceModelMatrix"}
      [] pc[t] = "r_scan" -> {"particles"}
      [] pc[t] = "r_quad" -> IF exists THEN {} ELSE {"slice"}
      [] pc[t] = "r_points" -> {PointsSectionOfRender[1]}
      [] pc[t] = "r_lines" -> IF slicePoints = <<>> THEN {} ELSE {PointsSectionOfRender[2]}
      [] pc[t] = "r_tick_lock" -> {"particles"}
      [] pc[t] = "r_volume" -> {"volume"}
      [] pc[t] = "r_outline" -> {"outline"}
      [] pc[t] = "r_view" -> {"slice"}
      [] pc[t] = "m_model" -> {"modelMatrix"}
      [] pc[t] = "m_stylus" -> {"stylusModelMatrix"}
      [] pc[t] = "u_effector" ->
            IF stylusVisible /\ tangibleVisible THEN {"modelMatrix"} ELSE {}
      [] pc[t] = "u_ray_lock" -> {EffectorSection[1]}
      [] pc[t] = "u_ray" -> {EffectorSection[2]}
      [] pc[t] = "u_button" -> IF buttonIsPressed THEN {"isosurfaceLow"} ELSE {}
      [] pc[t] = "u_plane" -> IF showSlice /\ ~slice.null THEN {"slice"} ELSE {}
      [] pc[t] = "u_plane_pose" -> {"sliceModelMatrix"}
      [] pc[t] \in {"u_clip_set", "u_clip_clear"} ->
            {"isosurface", "isosurfaceLow", "volume"}
      [] pc[t] = "u_points" -> {PointsSectionOfUpdate[1]}
      [] pc[t] = "u_points_in" -> {PointsSectionOfUpdate[2]}
      [] pc[t] = "p_stylus" -> {"stylusModelMatrix"}
      [] pc[t] = "p_seed" -> IF seedPoint = SeedUnset THEN {} ELSE {"modelMatrix"}
      [] pc[t] = "p_lock" -> {"particles"}
      [] OTHER -> {}

\* Thread t stands at loc and can take its next step.
At(t, loc) == crashed = "no" /\ pc[t] = loc /\ \A c \in Wants(t) : Free(c, t)
Goto(t, loc) == pc' = [pc EXCEPT ![t] = loc]
Lock(t, c) == held' = [held EXCEPT ![t] = @ \cup {c}]
Unlock(t, c) == held' = [held EXCEPT ![t] = @ \ {c}]

\* everything a step that only moves on leaves alone
restVars == <<dataVars, poolVars, seedPoint, poseVars, visVars, zoomFactor, kernelCall, volume,
              envVars, crashed, clipVars>>

(***************************************************************************)
(* renderObjects on the render thread                                      *)
(***************************************************************************)
\* render() is called
RenderBegin ==
    /\ At("render", "idle")
    /\ Goto("render", "r_model")
    /\ UNCHANGED <<restVars, outcome, held, cursor, exists>>

\* The sections that copy modelMatrix and sliceModelMatrix and draw the
\* isosurface and the outline.
AfterRead ==
    [r_model |-> "r_iso", r_iso |-> "r_s2mm", r_s2mm |-> "r_scan", r_outline |-> "r_view"]
RenderRead ==
    \E loc \in DOMAIN AfterRead :
        /\ At("render", loc)
        /\ Goto("render", AfterRead[loc])
        /\ UNCHANGED <<restVars, outcome, held, cursor, exists>>

\* synchronized (particles): the scan for a valid particle.  resetParticles
\* only clears "valid", so a scan that runs while a reset is under way
\* finds what a scan before or after the whole reset finds.
RenderScan ==
    /\ At("render", "r_scan")
    /\ exists' = AnyValid(particles)
    /\ Goto("render", "r_quad")
    /\ UNCHANGED <<restVars, outcome, held, cursor>>

\* if (!exists) synchronized(slice) { slice->setOpaque(false); ... }
RenderQuad ==
    /\ At("render", "r_quad")
    /\ crashed' = IF ~exists /\ slice.null THEN "null slice" ELSE "no"
    /\ Goto("render", "r_points")
    /\ UNCHANGED <<dataVars, poolVars, seedPoint, poseVars, visVars, zoomFactor, kernelCall,
                   volume, envVars, clipVars, outcome, held, cursor, exists>>

\* synchronized(slicePoints) {
RenderLockPoints ==
    /\ At("render", "r_points")
    /\ Lock("render", PointsSectionOfRender[1])
    /\ Goto("render", "r_lines")
    /\ UNCHANGED <<restVars, outcome, cursor, exists>>

\* ... the cross-section lines, each point through posToDataCoords ... }
RenderLines ==
    /\ At("render", "r_lines")
    /\ Unlock("render", PointsSectionOfRender[1])
    /\ IF slicePoints # <<>> /\ ~MatInvertible(modelMatrix)
       THEN /\ outcome' = "runtime_error"
            /\ markers' = {}
            /\ lineVec' = <<>>
            /\ Goto("render", "idle")
       ELSE /\ IF slicePoints = <<>> THEN lineVec' = <<>>
               ELSE \E d \in {DataPoints(slicePoints, MatInverse(modelMatrix), <<>>)} :
                       lineVec' = LineVecOf(slicePoints, d)
            /\ Goto("render", "r_tick_lock")
            /\ UNCHANGED <<outcome, markers>>
    /\ UNCHANGED <<dataVars, particles, particleStartTime, seedPoint, poseVars,
                   visVars, zoomFactor, kernelCall, volume, envVars, crashed, settingVars,
                   frameVars, objectVars, cursor, exists>>

\* synchronized (particles) { for (Particle& p : particles)
RenderLockPool ==
    /\ At("render", "r_tick_lock")
    /\ Lock("render", "particles")
    /\ cursor' = [cursor EXCEPT !["render"] = 1]
    /\ markers' = {}
    /\ Goto("render", "r_tick")
    /\ UNCHANGED <<dataVars, particles, particleStartTime, seedPoint, poseVars,
                   visVars, zoomFactor, kernelCall, volume, envVars, crashed, clipVars, outcome,
                   exists>>

\* One turn of the loop of the particle pass; the section ends with the
\* last particle.
RenderTick(oob) ==
    /\ At("render", "r_tick")
    /\ \E i \in {cursor["render"]} :
         \E r \in {IF particles[i].valid
                   THEN integrateParticleMotion(particles[i], clock, oob)
                   ELSE [p |-> particles[i], fault |-> "none"]} :
           /\ particles' = [particles EXCEPT ![i] = r.p]
           /\ crashed' = IF r.fault # "none" THEN r.fault ELSE "no"
           /\ markers' = IF r.fault # "none" \/ ~r.p.valid \/ r.p.delayMs > 0
                         THEN markers ELSE markers \cup {i}
           /\ IF i < PoolSize
              THEN /\ cursor' = [cursor EXCEPT !["render"] = i + 1]
                   /\ UNCHANGED <<pc, held>>
              ELSE /\ cursor' = [cursor EXCEPT !["render"] = 0]
                   /\ Unlock("render", "particles")
                   /\ Goto("render", "r_volume")
    /\ UNCHANGED <<dataVars, particleStartTime, seedPoint, poseVars, visVars,
                   zoomFactor, kernelCall, volume, envVars, clipVars, outcome, exists>>

\* synchronized_if(volume) { volume->setOpacity(exists ? 0.025 : 1.0); ... }
RenderVolume ==
    /\ At("render", "r_volume")
    /\ volume' = IF volume.null THEN volume
                 ELSE [volume EXCEPT
                         !.opacity = IF exists THEN Rat(25, 1000) ELSE RInt(1),
                         !.clip = IF exists THEN NoPlane ELSE @]
    /\ Goto("render", "r_outline")
    /\ UNCHANGED <<dataVars, poolVars, seedPoint, poseVars, visVars, zoomFactor, kernelCall,
                   envVars, crashed, clipVars, outcome, held, cursor, exists>>

\* synchronized(slice) { slice->setOpaque(false); ... } return;
RenderView ==
    /\ At("render", "r_view")
    /\ crashed' = IF slice.null THEN "null slice" ELSE "no"
    /\ exists' = FALSE
    /\ Goto("render", "idle")
    /\ UNCHANGED <<dataVars, poolVars, seedPoint, poseVars, visVars, zoomFactor, kernelCall,
                   volume, envVars, clipVars, outcome, held, cursor>>

RenderStep ==
    \/ RenderBegin
    \/ RenderRead
    \/ RenderScan
    \/ RenderQuad
    \/ RenderLockPoints
    \/ RenderLines
    \/ RenderLockPool
    \/ \E oob \in OobChoices : RenderTick(oob)
    \/ RenderVolume
    \/ RenderView

(***************************************************************************)
(* setMatrices, releaseParticles and resetParticles on the input thread    *)
(***************************************************************************)
\* The poses the tracker reports while the two threads run.
ThreadPoses == {MatIdentity}
ThreadStylusPoses == {StylusAtData}
\* The draws of rand() while the two threads run.
ThreadJitterRuns == {[i \in 1..PoolSize |-> NoJitter]}

\* One of the three calls is made.
InputCalls == {"m_model", "p_stylus", "x_pass"}
InputBegin(loc) ==
    /\ At("input", "idle")
    /\ Goto("input", loc)
    /\ cursor' = [cursor EXCEPT !["input"] = IF loc = "x_pass" THEN 1 ELSE 0]
    /\ UNCHANGED <<restVars, outcome, held, exists>>

\* synchronized(state->modelMatrix) { state->modelMatrix = volumeMatrix; }
WriteModelMatrix(volumeMatrix) ==
    /\ At("input", "m_model")
    /\ modelMatrix' = volumeMatrix
    /\ Goto("input", "m_stylus")
    /\ UNCHANGED <<dataVars, poolVars, seedPoint, stylusModelMatrix, visVars,
                   zoomFactor, kernelCall, volume, envVars, crashed, clipVars, outcome, held,
                   cursor, exists>>

\* synchronized(state->stylusModelMatrix) { state->stylusModelMatrix = stylusMatrix; }
WriteStylusMatrix(stylusMatrix) ==
    /\ At("input", "m_stylus")
    /\ stylusModelMatrix' = stylusMatrix
    /\ Goto("input", "u_effector")
    /\ UNCHANGED <<dataVars, poolVars, seedPoint, modelMatrix, visVars, zoomFactor, kernelCall,
                   volume, envVars, crashed, clipVars, outcome, held, cursor, exists>>

\* updateSlicePlanes, the effector block up to its synchronized section:
\* posToDataCoords, the bounds test, and the inverse of the stylus matrix.
UpdateEffector ==
    /\ At("input", "u_effector")
    /\ \E e \in {EffectorStage(modelMatrix, stylusModelMatrix)} :
         /\ effectorIntersectionValid' =
              IF e.thrown \/ e.entered THEN effectorIntersectionValid
              ELSE e.effectorIntersectionValid
         /\ outcome' = IF e.thrown THEN "frame_error" ELSE outcome
         /\ Goto("input", IF e.thrown THEN "idle"
                          ELSE IF e.entered THEN "u_ray_lock" ELSE "u_plane")
    /\ UNCHANGED <<dataVars, poolVars, seedPoint, poseVars, visVars, zoomFactor, kernelCall,
                   volume, envVars, crashed, settingVars, previewVars, axisVars,
                   planeVars, effectorIntersection, cameraVars, objectVars, lineVec,
                   held, cursor, exists>>

\* synchronized (effectorIntersection) {
LockEffector ==
    /\ At("input", "u_ray_lock")
    /\ Lock("input", EffectorSection[1])
    /\ Goto("input", "u_ray")
    /\ UNCHANGED <<restVars, outcome, cursor, exists>>

\* ... rayAABBIntersection and dataCoordsToPos ... }
UpdateRay ==
    /\ At("input", "u_ray")
    /\ \E e \in {EffectorStage(modelMatrix, stylusModelMatrix)} :
         /\ effectorIntersection' = e.effectorIntersection
         /\ effectorIntersectionValid' = e.effectorIntersectionValid
    /\ Unlock("input", EffectorSection[1])
    /\ Goto("input", "u_button")
    /\ UNCHANGED <<dataVars, poolVars, seedPoint, poseVars, visVars, zoomFactor, kernelCall,
                   volume, envVars, crashed, settingVars, previewVars, axisVars,
                   planeVars, cameraVars, objectVars, lineVec, outcome, cursor, exists>>

\* if (buttonIsPressed) { ... synchronized_if(isosurfaceLow) { ... } }
UpdateButton ==
    /\ At("input", "u_button")
    /\ \E e \in {ButtonStage(EffectorIdle)} :
         /\ surfacePreview' = e.surfacePreview
         /\ surfacePercentage' = e.surfacePercentage
         /\ prevValue' = e.prevValue
         /\ isosurfaceLow' = e.isosurfaceLow
         /\ crashed' = e.fault
    /\ Goto("input", "u_plane")
    /\ UNCHANGED <<dataVars, poolVars, seedPoint, poseVars, visVars, zoomFactor, kernelCall,
                   volume, envVars, settingVars, axisVars, planeVars, effectorVars,
                   cameraVars, slice, isosurface, lineVec, outcome, held, cursor,
                   exists>>

\* The plane computation up to the end of its synchronized(slice) section.
\* A computation that sets no plane writes what it writes here.
UpdatePlane ==
    /\ At("input", "u_plane")
    /\ \E pl \in {PlaneStage(modelMatrix, stylusModelMatrix)} :
         /\ slice' = pl.slice
         /\ outcome' = IF pl.thrown THEN "frame_error" ELSE outcome
         /\ Goto("input", IF pl.thrown THEN "idle"
                          ELSE IF pl.set THEN "u_plane_pose" ELSE "u_clip_clear")
         /\ IF pl.set THEN UNCHANGED <<axisVars, cameraVars>>
            ELSE /\ clipAxis' = pl.clipAxis
                 /\ lockedClipAxis' = pl.lockedClipAxis
                 /\ sliceEmpty' = FALSE
                 /\ wasVisible' = pl.wasVisible
                 /\ prevPos' = pl.prevPos
                 /\ UNCHANGED noPlaneSinceHidden
    /\ UNCHANGED <<dataVars, poolVars, seedPoint, poseVars, visVars, zoomFactor, kernelCall,
                   volume, envVars, crashed, settingVars, previewVars, planeVars,
                   effectorVars, isosurface, isosurfaceLow, lineVec, held, cursor,
                   exists>>

\* synchronized(state->sliceModelMatrix) { ... }, the test of
\* slice->isEmpty(), and the plane handed back to updateSlicePlanes.
UpdatePlanePose ==
    /\ At("input", "u_plane_pose")
    /\ \E pl \in {PlaneStage(modelMatrix, stylusModelMatrix)} :
         /\ clipAxis' = pl.clipAxis
         /\ \E empty \in EmptyAnswers(pl.asked) :
              /\ sliceEmpty' = empty
              /\ lockedClipAxis' = IF pl.asked
                                   THEN LockAfterEmptyTest(pl.lockedClipAxis, empty)
                                   ELSE pl.lockedClipAxis
         /\ wasVisible' = pl.wasVisible
         /\ prevPos' = pl.prevPos
         /\ noPlaneSinceHidden' = HistoryAfter(pl)
         /\ sliceDepth' = pl.sliceDepth
         /\ sliceModelMatrix' = pl.sliceModelMatrix
         /\ slicePoint' = pl.slicePoint
         /\ sliceNormal' = pl.sliceNormal
    /\ Goto("input", "u_clip_set")
    /\ UNCHANGED <<dataVars, poolVars, seedPoint, poseVars, visVars, zoomFactor, kernelCall,
                   volume, envVars, crashed, settingVars, previewVars, slicePoints,
                   effectorVars, objectVars, lineVec, outcome, held, cursor, exists>>

\* The three sections that set or clear the clip plane of the isosurfaces
\* and of the volume.  They follow one another and hold no other cell, so
\* they are entered here together.
UpdateClip ==
    /\ \/ At("input", "u_clip_set") /\ Goto("input", "u_points")
          /\ UNCHANGED outcome
       \/ At("input", "u_clip_clear") /\ Goto("input", "idle")
          /\ UNCHANGED outcome
    /\ \E plane \in {IF pc["input"] = "u_clip_set"
                     THEN ClipPlaneOf(slicePoint, sliceNormal) ELSE NoPlane} :
         /\ isosurface' = WithClip(isosurface, plane)
         /\ isosurfaceLow' = WithClip(isosurfaceLow, plane)
         /\ volume' = WithClip(volume, plane)
    /\ UNCHANGED <<dataVars, poolVars, seedPoint, poseVars, visVars, zoomFactor, kernelCall,
                   envVars, crashed, settingVars, frameVars, slice, lineVec, held,
                   cursor, exists>>

\* synchronized(slicePoints) {
LockPoints ==
    /\ At("input", "u_points")
    /\ Lock("input", PointsSectionOfUpdate[1])
    /\ Goto("input", "u_points_in")
    /\ UNCHANGED <<restVars, outcome, cursor, exists>>

\* ... the twelve edges of the box against the plane, each hit through
\* dataCoordsToPos ... } and setMatrices returns.
UpdatePoints ==
    /\ At("input", "u_points_in")
    /\ slicePoints' = SlicePointsFrom(1, modelMatrix,
                                      M3Transpose(MatInverse(modelMatrix).lin),
                                      slicePoint, sliceNormal, <<>>)
    /\ Unlock("input", PointsSectionOfUpdate[1])
    /\ Goto("input", "idle")
    /\ UNCHANGED <<dataVars, poolVars, seedPoint, poseVars, visVars, zoomFactor, kernelCall,
                   volume, envVars, crashed, settingVars, previewVars, axisVars,
                   sliceModelMatrix, slicePoint, sliceNormal, sliceDepth,
                   effectorVars, cameraVars, objectVars, lineVec, outcome, cursor,
                   exists>>

\* releaseParticles: synchronized (state->stylusModelMatrix) { smm = ...; }
ReleaseReadStylus ==
    /\ At("input", "p_stylus")
    /\ Goto("input", "p_seed")
    /\ UNCHANGED <<restVars, outcome, held, cursor, exists>>

\* The sentinel test, posToDataCoords(seedPoint), the bounds test and the
\* time stamp.
ReleaseSeed ==
    /\ At("input", "p_seed")
    /\ IF seedPoint = SeedUnset
       THEN /\ Goto("input", "idle")
            /\ UNCHANGED <<outcome, particleStartTime>>
       ELSE IF ~MatInvertible(modelMatrix)
       THEN /\ outcome' = "runtime_error"
            /\ Goto("input", "idle")
            /\ UNCHANGED particleStartTime
       ELSE IF SeedOutside(posToDataCoords(seedPoint))
       THEN /\ Goto("input", "idle")
            /\ UNCHANGED <<outcome, particleStartTime>>
       ELSE /\ particleStartTime' = clock
            /\ Goto("input", "p_lock")
            /\ UNCHANGED outcome
    /\ UNCHANGED <<dataVars, particles, markers, seedPoint, poseVars, visVars,
                   zoomFactor, kernelCall, volume, envVars, crashed, clipVars, held, cursor,
                   exists>>

\* synchronized (particles) { for (Particle& p : particles)
ReleaseLockPool ==
    /\ At("input", "p_lock")
    /\ Lock("input", "particles")
    /\ cursor' = [cursor EXCEPT !["input"] = 1]
    /\ Goto("input", "p_pass")
    /\ UNCHANGED <<restVars, outcome, exists>>

\* One turn of the release loop; the section ends with the last particle
\* and releaseParticles returns.
ReleaseNext ==
    /\ At("input", "p_pass")
    /\ \E i \in {cursor["input"]} :
         /\ \E jit \in ThreadJitterRuns :
              \E dataPos \in {posToDataCoords(seedPoint)} :
                particles' =
                  [particles EXCEPT ![i] =
                     ReleaseOne(i, <<RTrunc(dataPos[1]), RTrunc(dataPos[2]),
                                     RTrunc(dataPos[3])>>,
                                jit[i], particleStartTime)]
         /\ IF i < PoolSize
            THEN /\ cursor' = [cursor EXCEPT !["input"] = i + 1]
                 /\ UNCHANGED <<pc, held>>
            ELSE /\ cursor' = [cursor EXCEPT !["input"] = 0]
                 /\ Unlock("input", "particles")
                 /\ Goto("input", "idle")
    /\ UNCHANGED <<dataVars, particleStartTime, markers, seedPoint, poseVars,
                   visVars, zoomFactor, kernelCall, volume, envVars, crashed, clipVars, outcome,
                   exists>>

\* One turn of the loop of resetParticles, which enters no section;
\* resetParticles returns after the last particle.
ResetNext ==
    /\ At("input", "x_pass")
    /\ \E i \in {cursor["input"]} :
         /\ particles' = [particles EXCEPT ![i] = ResetOne(particles[i])]
         /\ IF i < PoolSize
            THEN /\ cursor' = [cursor EXCEPT !["input"] = i + 1]
                 /\ UNCHANGED pc
            ELSE /\ cursor' = [cursor EXCEPT !["input"] = 0]
                 /\ Goto("input", "idle")
    /\ UNCHANGED <<dataVars, particleStartTime, markers, seedPoint, poseVars,
                   visVars, zoomFactor, kernelCall, volume, envVars, crashed, clipVars, held,
                   outcome, exists>>

InputStep ==
    \/ \E loc \in InputCalls : InputBegin(loc)
    \/ \E m \in ThreadPoses : WriteModelMatrix(m)
    \/ \E sm \in ThreadStylusPoses : WriteStylusMatrix(sm)
    \/ UpdateEffector
    \/ LockEffector
    \/ UpdateRay
    \/ UpdateButton
    \/ UpdatePlane
    \/ UpdatePlanePose
    \/ UpdateClip
    \/ LockPoints
    \/ UpdatePoints
    \/ ReleaseReadStylus
    \/ ReleaseSeed
    \/ ReleaseLockPool
    \/ ReleaseNext
    \/ ResetNext

\* The application with a dataset and its velocity field loaded, the seed
\* point set inside the data, both props in sight and the slice shown in
\* axis mode: the state the calls loadDataSet, loadVelocityDataSet and
\* setSeedPoint and the setters leave, with no call in progress.
ThreadDataFile == CHOOSE f \in TickDataFiles : TRUE
ThreadVelocityFile == CHOOSE f \in TickVelocityFiles : TRUE
ThreadSeed == <<RNeg(Half), RNeg(Half), RNeg(Half)>>
InitLoaded ==
    /\ data = ImageOf(ThreadDataFile)
    /\ dataDim = ThreadDataFile.dim
    /\ dataSpacing = ThreadDataFile.spacing
    /\ computedZoomFactor = ComputedZoom(ThreadDataFile)
    /\ velocityData = VelocityImageOf(ThreadVelocityFile)
    /\ particles = [i \in 1..PoolSize |->
                      [pos |-> <<0, 0, 0>>, valid |-> FALSE, delayMs |-> 0,
                       stallMs |-> 0, lastTime |-> 0]]
    /\ particleStartTime = 0
    /\ seedPoint = ThreadSeed
    /\ volume = [null |-> FALSE, clip |-> NoPlane, opacity |-> RInt(1),
                 range |-> ThreadDataFile.range]
    /\ markers = {}
    /\ modelMatrix = MatIdentity
    /\ stylusModelMatrix = MatIdentity
    /\ tangibleVisible = TRUE
    /\ stylusVisible = TRUE
    /\ zoomFactor = RInt(1)
    /\ InitEnv
    /\ showSlice = TRUE
    /\ sliceType = SLICE_AXIS
    /\ surfacePreview = FALSE
    /\ surfacePercentage = RInt(0)
    /\ clipAxis = CLIP_NONE
    /\ lockedClipAxis = CLIP_NONE
    /\ sliceEmpty = FALSE
    /\ sliceModelMatrix = MatIdentity
    /\ slicePoint = VZero
    /\ sliceNormal = VZero
    /\ sliceDepth = RInt(0)
    /\ slicePoints = <<>>
    /\ effectorIntersection = VZero
    /\ effectorIntersectionValid = FALSE
    /\ buttonIsPressed = FALSE
    /\ slice = NewSlice
    /\ isosurface = NewIsoSurface
    /\ isosurfaceLow = NewIsoSurface
    /\ wasVisible = FALSE
    /\ prevPos = VZero
    /\ noPlaneSinceHidden = TRUE
    /\ prevValue = RInt(0)
    /\ lineVec = <<>>
    /\ InitCalls

NextThreads ==
    \/ InputStep
    \/ RenderStep

SpecThreads == InitLoaded /\ [][NextThreads]_vars

\* Thread t has a step to take: every place of a call has one, which waits
\* for nothing but the cells it enters.
CanStep(t) == crashed = "no" /\ \A c \in Wants(t) : Free(c, t)
\* Thread t takes a step: each of its steps moves it on in its call or in
\* its loop.
Moved(t) == pc'[t] # pc[t] \/ cursor'[t] # cursor[t]
\* Strong fairness of the steps of thread t, SF_vars(InputStep) for the
\* input thread and SF_vars(RenderStep) for the render thread, with
\* "enabled" and "taken" written as CanStep and Moved.
StronglyFair(t) == <>[](~CanStep(t)) \/ []<><<Moved(t)>>_vars

\* Each thread is scheduled again and again, and a thread that waits for a
\* cell gets it when the cell is released again and again: a mutex that
\* hands the cell to a waiting thread.  Under weak fairness the render
\* thread could take the pool in every frame just before releaseParticles
\* looks at it.
SpecThreadsFair ==
    SpecThreads /\ StronglyFair("input") /\ StronglyFair("render")

(***************************************************************************)
(* Properties of the loaders and of releaseParticles                       *)
(***************************************************************************)
\* C2: with no velocity field loaded, release and the per-particle tick are
\* no-ops: no particle is valid and the absent velocity data is never
\* dereferenced (the process never dies on it).
C2_NoVelocityNoAdvection ==
    velocityData.null => (~AnyValid(particles) /\ crashed # "null velocityData")

\* C3: a velocity field that is installed has the dimensions of the scalar
\* grid, is 3D and carries vectors; an image that fails validation is not
\* left installed.
C3_InstalledVelocityIsValid ==
    ~velocityData.null =>
        /\ velocityData.dim = dataDim
        /\ GetDataDimension(velocityData.dim) = 3
        /\ velocityData.hasVectors

\* The seed point is set and its data-space position lies outside [0, dim)
\* on some axis (computed from the pose, the zoom and the grid).
C4_SeedOutOfBounds ==
    /\ seedPoint # SeedUnset
    /\ MatInvertible(modelMatrix)
    /\ LET q == VAdd(VScale(MatApply(MatInverse(modelMatrix), seedPoint),
                            RDiv(RInt(1), zoomFactor)), HalfExtent)
       IN  \E k \in 1..3 : RLt(q[k], RInt(0)) \/ ~RLt(q[k], RInt(dataDim[k]))

\* A call of releaseParticles that got past the unset-seed test has returned.
C4_ReleaseReturned == outcome' \in {"outside bounds", "released"}

\* C4 (as amended): a release whose seed lies outside [0, dim) on some axis
\* changes no particle: the pool, valid flags included, is as it was before
\* the call.
C4_OutOfBoundsReleaseKeepsPool ==
    [][(C4_ReleaseReturned /\ C4_SeedOutOfBounds) => particles' = particles]_vars

\* C4 (as stated): after a release whose seed lies outside [0, dim), every
\* particle has valid = false, whatever the pool held before.
C4_OutOfBoundsReleaseInvalidatesAll ==
    [][(C4_ReleaseReturned /\ C4_SeedOutOfBounds) => ~AnyValid(particles')]_vars

\* An out-of-bounds release has just returned on a pool that held valid particles.
C4_RejectedOnLivePool ==
    outcome = "outside bounds" /\ C4_SeedOutOfBounds /\ AnyValid(particles)

\* C8 (as amended): a successful release gives particle i (from 1) the delay
\* (i - 1) * (D \div N), the integer quotient: the first delay is 0, the
\* delays are evenly spaced and strictly increasing, and all lie in [0, D)
\* without having to reach D.
C8_StaggeredDelays ==
    outcome = "released" =>
        /\ particles[1].delayMs = 0
        /\ \A i \in 1..PoolSize :
              /\ particles[i].delayMs = (i - 1) * (particleReleaseDuration \div PoolSize)
              /\ particles[i].delayMs >= 0
              /\ particles[i].delayMs < particleReleaseDuration
        /\ \A i \in 1..(PoolSize - 1) :
              /\ particles[i].delayMs < particles[i + 1].delayMs
              /\ particles[i + 1].delayMs - particles[i].delayMs
                     = particles[2].delayMs - particles[1].delayMs

\* C8 (as stated): the delays are 0, D/N, 2D/N, ... and span the window D.
C8_DelaysSpanWindow ==
    outcome = "released" =>
        \A i \in 1..PoolSize :
            particles[i].delayMs * PoolSize = (i - 1) * particleReleaseDuration

\* A release has just succeeded and the last particle waits for its turn.
C8_Released ==
    outcome = "released" /\ AnyValid(particles) /\ particles[PoolSize].delayMs > 0

(***************************************************************************)
(* The pure functions of the geometry, called on their own: the coordinate *)
(* transforms under a zoom and a pose, and the two ray tests of            *)
(* updateSlicePlanes.                                                      *)
(***************************************************************************)
\* settings->zoomFactor as the application sets it, and poses of the data
KernelZooms == {RInt(1), RInt(3)}
KernelPoses == {MatIdentity, Translation(Vec(1, 0, -2))}
KernelNormals == {VZero, UnitZ}
KernelPositions == {VZero, Vec(7, 0, -1), Vec(1, 2, 3)}
\* rays against the box [0, 10]^3: from outside towards it and past it,
\* from inside, from its faces, and with no direction at all
KernelBoxMax == Vec(10, 10, 10)
KernelOrigins ==
    {Vec(-5, 5, 5), Vec(-5, 20, 20), Vec(5, 5, 5), Vec(0, -5, 5), Vec(10, -5, 5),
     Vec(-5, -5, -5)}
KernelDirs == {Vec(1, 0, 0), Vec(0, 1, 0), Vec(0, 0, 0), Vec(1, 1, 1), Vec(-1, 0, 0)}
KernelIntervals == {<<RInt(0), RInt(10000)>>, <<RInt(6), RInt(8)>>}

InitKernel ==
    /\ InitPool /\ InitPose /\ InitEnv /\ InitClip /\ InitCalls
    /\ dataDim = <<0, 0, 0>> /\ particles[1].delayMs = 0
    /\ modelMatrix \in KernelPoses
    /\ zoomFactor \in KernelZooms
    /\ slicePoint = VZero
    /\ sliceNormal \in KernelNormals

\* The last call was a call of the transform named other, on a position of
\* the list, for the dataset that is loaded now.
Returned(other) ==
    kernelCall.op = other /\ ~kernelCall.chained /\ kernelCall.extent = HalfExtent

\* What a transform can be called on: a position of the list, or what the
\* other transform has just returned for one.
TransformArgs(other) ==
    KernelPositions \cup (IF Returned(other) THEN {kernelCall.result} ELSE {})

\* A call of the transform named op on arg that returns result.
TransformCall(op, other, arg, result) ==
    /\ crashed = "no"
    /\ IF ~MatInvertible(modelMatrix)
       THEN outcome' = "runtime_error" /\ UNCHANGED kernelCall
       ELSE /\ outcome' = "ok"
            /\ kernelCall' =
                 IF Returned(other) /\ arg = kernelCall.result
                 THEN [op |-> op, arg |-> arg, result |-> result, extent |-> HalfExtent,
                       chained |-> TRUE, before |-> kernelCall.arg]
                 ELSE [op |-> op, arg |-> arg, result |-> result, extent |-> HalfExtent,
                       chained |-> FALSE, before |-> arg]
    /\ UNCHANGED <<dataVars, poolVars, seedPoint, poseVars, visVars, zoomFactor,
                   volume, envVars, crashed, clipVars, threadVars>>

PosToDataCoordsCall(pos) ==
    TransformCall("posToDataCoords", "dataCoordsToPos", pos, posToDataCoords32(pos))

DataCoordsToPosCall(dataCoords) ==
    TransformCall("dataCoordsToPos", "posToDataCoords", dataCoords,
                  dataCoordsToPos32(dataCoords))

\* rayAABBIntersection(rayPoint, rayDir, aabbMin, aabbMax, tmin, tmax)
RayAABBCall(rayPoint, rayDir, tmin, tmax) ==
    /\ crashed = "no"
    /\ outcome' = "ok"
    /\ kernelCall' =
         [op |-> "rayAABBIntersection", rayPoint |-> rayPoint, rayDir |-> rayDir,
          aabbMin |-> VZero, aabbMax |-> KernelBoxMax, tmin |-> tmin, tmax |-> tmax,
          result |-> rayAABBIntersection(rayPoint, rayDir, VZero, KernelBoxMax,
                                         tmin, tmax)]
    /\ UNCHANGED <<dataVars, poolVars, seedPoint, poseVars, visVars, zoomFactor,
                   volume, envVars, crashed, clipVars, threadVars>>

\* rayPlaneIntersection(pt, dir, t) against the clip plane of the state
RayPlaneCall(pt, dir) ==
    /\ crashed = "no"
    /\ outcome' = "ok"
    /\ kernelCall' =
         [op |-> "rayPlaneIntersection", rayPoint |-> pt, rayDir |-> dir,
          result |-> rayPlaneIntersection(modelMatrix, pt, dir, slicePoint,
                                          sliceNormal)]
    /\ UNCHANGED <<dataVars, poolVars, seedPoint, poseVars, visVars, zoomFactor,
                   volume, envVars, crashed, clipVars, threadVars>>

NextKernel ==
    \/ \E f \in TickDataFiles : LoadDataSet(f)
    \/ \E pos \in TransformArgs("dataCoordsToPos") : PosToDataCoordsCall(pos)
    \/ \E dataCoords \in TransformArgs("posToDataCoords") : DataCoordsToPosCall(dataCoords)
    \/ \E rayPoint \in KernelOrigins, rayDir \in KernelDirs, iv \in KernelIntervals :
          RayAABBCall(rayPoint, rayDir, iv[1], iv[2])
    \/ \E pt \in KernelPositions, dir \in KernelDirs : RayPlaneCall(pt, dir)

SpecKernel == InitKernel /\ [][NextKernel]_vars

(***************************************************************************)
(* Properties of the per-frame integration                                 *)
(***************************************************************************)
\* C5: a particle in its stall countdown stays valid while the ticked time
\* since the stall began is below particleStallDuration and becomes invalid
\* in the frame in which that time reaches it, never earlier.  (stallMs is
\* what is left of the window, so the window is reached in a frame whose
\* elapsed time is at least stallMs.)
C5_StallExpiresAtWindow ==
    [][(outcome' = "rendered" /\ crashed' = "no" /\ tangibleVisible) =>
          \A i \in 1..PoolSize :
              (particles[i].valid /\ particles[i].stallMs > 0) =>
                  (particles'[i].valid
                      <=> ElapsedMs(clock, particles[i].lastTime) < particles[i].stallMs)]_vars
\* The render pass integrates the valid particle i in this step: the tangible
\* is visible, the pass ran to its end, and the particle's lastTime is now.
Ticked(i) ==
    /\ outcome' = "rendered" /\ crashed' = "no" /\ clock' = clock
    /\ tangibleVisible /\ particles[i].valid
    /\ particles'[i].lastTime = clock

\* C15: a particle in its stall countdown does not move, its countdown only
\* goes down, and it is invalid after the tick unless time is left on the
\* countdown; a stalled particle never resumes.
C15_StalledNeverResumes ==
    [][\A i \in 1..PoolSize :
          (Ticked(i) /\ particles[i].delayMs <= 0 /\ particles[i].stallMs > 0) =>
              /\ particles'[i].pos = particles[i].pos
              /\ particles'[i].stallMs <= particles[i].stallMs
              /\ particles'[i].valid <=> particles'[i].stallMs > 0]_vars

\* C16: a frame with the tangible hidden leaves the particles as they are,
\* and a tick charges to a particle's delay or stall countdown no more than
\* the time that passed while the tangible was visible (up to the one
\* millisecond the clock arithmetic can round up).
C16_OnlyVisibleTimeCharged ==
    [][/\ (outcome' = "rendered" /\ ~tangibleVisible) => particles' = particles
       /\ \A i \in 1..PoolSize :
            Ticked(i) =>
              /\ particles[i].delayMs > 0 =>
                   (particles[i].delayMs - particles'[i].delayMs) * TicksPerMs
                       <= clock - particles[i].lastTime - hiddenTicks + TicksPerMs
              /\ (particles[i].delayMs <= 0 /\ particles[i].stallMs > 0) =>
                   (particles[i].stallMs - particles'[i].stallMs) * TicksPerMs
                       <= clock - particles[i].lastTime - hiddenTicks + TicksPerMs]_vars

\* C17: a tick of a particle whose delay is counting down takes the elapsed
\* milliseconds off the delay; while the delay has not gone below zero the
\* particle stays where it is, and on the tick where it does the particle is
\* integrated for the overrun only.
C17_OnlyOverrunMoves ==
    [][\A i \in 1..PoolSize :
          (Ticked(i) /\ particles[i].delayMs > 0 /\ particles[i].stallMs = 0) =>
              \A e \in {ElapsedMs(clock, particles[i].lastTime)} :
                  /\ particles'[i].delayMs = particles[i].delayMs - e
                  /\ e <= particles[i].delayMs => particles'[i].pos = particles[i].pos
                  /\ e > particles[i].delayMs =>
                        \E oob \in OobChoices :
                            particles'[i].pos =
                                IntegrateLoop(particles[i], e - particles[i].delayMs,
                                              oob).p.pos]_vars

\* A tick has taken one particle past its delay and into motion while a
\* later one is still waiting where it was released.
C17_DelayOverrun ==
    /\ outcome = "rendered" /\ crashed = "no" /\ tangibleVisible
    /\ \E i \in 1..PoolSize :
          /\ particles[i].valid /\ particles[i].delayMs < 0
          /\ particles[i].lastTime = clock
          /\ particles[i].lastTime # particleStartTime
    /\ \E j \in 1..PoolSize : particles[j].valid /\ particles[j].delayMs > 0

\* C18: a particle drawn by a render pass lies inside the data bounds on
\* every axis.
C18_DrawnParticlesInBounds ==
    (outcome = "rendered" /\ crashed = "no") =>
        \A i \in markers :
            \A k \in 1..3 :
                /\ particles[i].pos[k] >= 0
                /\ particles[i].pos[k] < dataDim[k] * PosScale

(***************************************************************************)
(* Properties of the clip plane                                            *)
(***************************************************************************)

\* C6: once lockedClipAxis names an axis, a step leaves it as it is, gives
\* it the opposite sign, or resets it to CLIP_NONE; it never goes from one
\* of X, Y, Z to another without being CLIP_NONE in between.
C6_LockKeepsAxis ==
    [][lockedClipAxis # CLIP_NONE
         => lockedClipAxis' \in {lockedClipAxis, NegAxis(lockedClipAxis), CLIP_NONE}]_vars

\* A frame in axis mode under the nearly tied pose has found X the dominant
\* axis while the lock stayed on Z.
C6_LockHeldAgainstCandidate ==
    /\ outcome = "frame"
    /\ showSlice /\ sliceType = SLICE_AXIS /\ tangibleVisible
    /\ modelMatrix = NearX
    /\ clipAxis \in {CLIP_AXIS_X, CLIP_NEG_AXIS_X}
    /\ lockedClipAxis \in {CLIP_AXIS_Z, CLIP_NEG_AXIS_Z}

\* xDot, yDot and zDot of computeAxisClipPlane under the model matrix m
DotsUnder(m) ==
    <<VDot(VNormalized(M3Apply(M3Transpose(MatInverse(m).lin), UnitX)), UnitZ),
      VDot(VNormalized(M3Apply(M3Transpose(MatInverse(m).lin), UnitY)), UnitZ),
      VDot(VNormalized(M3Apply(M3Transpose(MatInverse(m).lin), UnitZ)), UnitZ)>>
\* the candidate a frame under m leaves when it compares with the margin mg
CandidateUnder(m, mg) ==
    Candidate(DotsUnder(m)[1], DotsUnder(m)[2], DotsUnder(m)[3], mg, clipAxis)
\* A step is a frame that reaches the comparisons of computeAxisClipPlane.
AxisFrameStep ==
    /\ outcome' = "frame"
    /\ showSlice /\ ~slice.null /\ sliceType = SLICE_AXIS /\ tangibleVisible

\* C21 as stated: in a frame of axis mode that starts with no axis locked
\* the candidate is chosen with a margin of zero.
C21_NoMarginWithoutLock ==
    [][AxisFrameStep /\ lockedClipAxis = CLIP_NONE
         => clipAxis' = CandidateUnder(modelMatrix', RInt(0))]_vars

\* C21: in a frame of axis mode the candidate is chosen with a margin of
\* 1/10 when the frame starts with a candidate axis (clipAxis is not
\* CLIP_NONE), whether or not an axis is locked, and with a margin of zero
\* when it starts with none.
C21_MarginFollowsCandidate ==
    [][AxisFrameStep
         => clipAxis' = IF clipAxis # CLIP_NONE
                        THEN CandidateUnder(modelMatrix', Rat(1, 10))
                        ELSE CandidateUnder(modelMatrix', RInt(0))]_vars

\* A frame under the nearly tied pose has kept the candidate on Z, with X
\* ahead by less than the margin and no axis locked.
C21_CandidateHeldWithoutLock ==
    /\ outcome = "frame"
    /\ showSlice /\ sliceType = SLICE_AXIS /\ tangibleVisible
    /\ modelMatrix = NearX
    /\ clipAxis \in {CLIP_AXIS_Z, CLIP_NEG_AXIS_Z}
    /\ lockedClipAxis = CLIP_NONE

\* A step is a frame update that ends with clipPlaneSet false.
FrameWithoutPlane ==
    /\ outcome' = "frame"
    /\ ~PlaneStage(modelMatrix', stylusModelMatrix').set

\* C22: after every frame update in which no clip plane was computed the
\* cross-section point list slicePoints is empty.
C22_NoPlaneNoPoints == [][FrameWithoutPlane => slicePoints' = <<>>]_vars

\* C23: after any frame update slicePoints holds at most six points.
C23_AtMostSixPoints == Len(slicePoints) <= 6

\* C25: in axis mode with the tangible visible and an axis chosen, the plane
\* computation leaves the lock on the chosen axis exactly when the slice is
\* not empty, and on NONE when it is.
C25_LockFollowsEmptiness ==
    [][AxisFrameStep
         => \A pl \in {computeAxisClipPlane(modelMatrix')} :
              pl.asked => lockedClipAxis' = IF sliceEmpty' THEN CLIP_NONE
                                            ELSE pl.lockedClipAxis]_vars
\* An axis plane was computed over an empty slice, and the lock is gone.
C25_EmptySliceUnlocked ==
    /\ outcome = "frame"
    /\ showSlice /\ sliceType = SLICE_AXIS /\ tangibleVisible
    /\ ~slice.null /\ slice.set /\ clipAxis # CLIP_NONE
    /\ sliceEmpty /\ lockedClipAxis = CLIP_NONE

\* The longest tick, in milliseconds, of the two a frame interval is split in.
MaxSplit == 3
\* The particle after a tick that finds ms milliseconds elapsed.
TickAfter(p, ms, oob) == integrateParticleMotion(p, p.lastTime + ms * TicksPerMs, oob)
\* A tick of a ms followed, if the process lives, by a tick of b ms.
SplitTicks(p, a, b, oob) ==
    LET first == TickAfter(p, a, oob)
    IN  IF first.fault # "none" THEN first ELSE TickAfter(first.p, b, oob)
PastDelay(p) == p.valid /\ p.delayMs <= 0

\* C26: for a particle past its delay, a tick of a ms followed by a tick of
\* b ms reaches the same position, and detects a stall at the same position,
\* as a single tick of a+b ms.
C26_SplitTicksAgree ==
    \A i \in 1..PoolSize, a \in 1..MaxSplit, b \in 1..MaxSplit, oob \in OobReads :
        PastDelay(particles[i]) /\ particles[i].stallMs = 0 =>
            LET one == TickAfter(particles[i], a + b, oob)
                two == SplitTicks(particles[i], a, b, oob)
            IN  /\ one.p.pos = two.p.pos
                /\ one.fault = two.fault
                /\ (one.p.stallMs > 0) = (two.p.stallMs > 0)
\* A particle past its delay that moves during a first tick and is found
\* stalled in the tick that follows.
C26_MovesThenStalls ==
    /\ tangibleVisible
    /\ \E i \in 1..PoolSize, a \in 1..MaxSplit, b \in 1..MaxSplit, oob \in OobReads :
         /\ PastDelay(particles[i]) /\ particles[i].stallMs = 0
         /\ TickAfter(particles[i], a, oob).fault = "none"
         /\ TickAfter(particles[i], a, oob).p.pos # particles[i].pos
         /\ TickAfter(particles[i], a, oob).p.stallMs = 0
         /\ SplitTicks(particles[i], a, b, oob).p.stallMs > 0

\* C27: a release that finds the seed point never set, or outside the data
\* bounds, changes no field of any particle and leaves the particle start
\* time as it was.
C27_RejectedReleaseChangesNothing ==
    [][(ReleaseParticles /\ (seedPoint = SeedUnset \/ C4_SeedOutOfBounds))
         => UNCHANGED <<particles, particleStartTime>>]_vars
\* An out-of-bounds release has just returned on a released pool, whose
\* particles still wait for their delays and whose start time is the time
\* of the earlier release.
C27_RejectedAfterRelease ==
    /\ outcome = "outside bounds"
    /\ particleStartTime = clock
    /\ \A i \in 1..PoolSize :
         particles[i].valid /\ particles[i].delayMs = (i - 1) * ReleaseStep

\* C29: every sample integrateParticleMotion takes of the velocity field
\* lies within the installed velocity array: no read is out of its range.
C29_NoSampleOutOfRange == crashed # "read out of range"

\* (normalMatrix*axis).normalized().dot(Vector3::unitZ()) for the signed axis ca
FacingDot(m, ca) ==
    VDot(VNormalized(M3Apply(M3Transpose(MatInverse(m).lin), AxisVector(ca))), UnitZ)

\* C30: in axis mode, the signed axis of every plane computeAxisClipPlane
\* returns (the locked axis, else the candidate) faces the viewer: its dot
\* product with the view axis is not positive.
C30_UsedAxisFacesViewer ==
    [][AxisFrameStep
         => \A pl \in {computeAxisClipPlane(modelMatrix')} :
              pl.set => RLe(FacingDot(modelMatrix', pl.lockedClipAxis), RInt(0))]_vars

\* C19 (as stated): after resetParticles every particle is invalid with
\* its position, its delay and its stall countdown zeroed.
C19_ResetZeroesAll ==
    [][ResetParticles
         => \A i \in 1..PoolSize :
              /\ ~particles'[i].valid
              /\ particles'[i].pos = <<0, 0, 0>>
              /\ particles'[i].delayMs = 0
              /\ particles'[i].stallMs = 0]_vars
\* C19 (as amended): after resetParticles every particle is invalid with
\* its position and its stall countdown zeroed; its delay and its last
\* tick time are what they were before the call.
C19_ResetKeepsDelay ==
    [][ResetParticles
         => \A i \in 1..PoolSize :
              /\ ~particles'[i].valid
              /\ particles'[i].pos = <<0, 0, 0>>
              /\ particles'[i].stallMs = 0
              /\ particles'[i].delayMs = particles[i].delayMs
              /\ particles'[i].lastTime = particles[i].lastTime]_vars
\* A released pool has been reset: the particles are invalid at the origin
\* and the delays of the release are still there.
C19_ResetAfterRelease ==
    /\ outcome = "ok"
    /\ seedPoint # SeedUnset
    /\ particleStartTime = clock
    /\ \A i \in 1..PoolSize :
         /\ ~particles[i].valid
         /\ particles[i].pos = <<0, 0, 0>>
         /\ particles[i].delayMs = (i - 1) * ReleaseStep

\* C20: after a release with an in-bounds seed every particle is valid with
\* stallMs = 0, at the seed plus a jitter whose components lie in [0, 1).
C20_ReleasedAtSeedPlusJitter ==
    outcome = "released" =>
        \A i \in 1..PoolSize :
            /\ particles[i].valid
            /\ particles[i].stallMs = 0
            /\ \A k \in 1..3 :
                 \E c \in {RTrunc(posToDataCoords(seedPoint)[k])} :
                    /\ particles[i].pos[k] >= c * PosScale
                    /\ particles[i].pos[k] < (c + 1) * PosScale

\* The rounding tolerance of a round trip: 1e-4 of the largest component,
\* or of 1 where every component is smaller.
MaxAbs(v) ==
    CHOOSE a \in {RInt(1), RAbs(v[1]), RAbs(v[2]), RAbs(v[3])} :
        /\ RLe(RInt(1), a)
        /\ \A k \in 1..3 : RLe(RAbs(v[k]), a)
\* (a difference of 1/100 or more is outside the tolerance of every value
\* below 100, and is told apart first to keep the products small)
Close(a, b) ==
    \A k \in 1..3 :
        /\ RLt(RAbs(RSub(a[k], b[k])), Rat(1, 100))
        /\ RLe(RMul(RAbs(RSub(a[k], b[k])), RInt(10000)), MaxAbs(b))

\* A transform has been called on what the other transform returned.
RoundTripDone ==
    kernelCall.op \in {"posToDataCoords", "dataCoordsToPos"} /\ kernelCall.chained

AxisInterval(p, d, lo, hi) ==
    IF RIsZero(d)
    THEN IF RLe(lo, p) /\ RLe(p, hi) THEN <<FNegInf, FInf>> ELSE <<FInf, FNegInf>>
    ELSE Swapped(RDiv(RSub(lo, p), d), RDiv(RSub(hi, p), d))
FMaxOf(a, b) == IF FGt(a, b) THEN a ELSE b
FMinOf(a, b) == IF FLt(a, b) THEN a ELSE b
Meet(i, j) == <<FMaxOf(i[1], j[1]), FMinOf(i[2], j[2])>>
\* the part of [tmin, tmax] in which the ray of a call is inside its box
RayOverlap(c) ==
    Meet(Meet(AxisInterval(c.rayPoint[1], c.rayDir[1], c.aabbMin[1], c.aabbMax[1]),
              AxisInterval(c.rayPoint[2], c.rayDir[2], c.aabbMin[2], c.aabbMax[2])),
         Meet(AxisInterval(c.rayPoint[3], c.rayDir[3], c.aabbMin[3], c.aabbMax[3]),
              <<c.tmin, c.tmax>>))

\* C12: rayAABBIntersection returns true exactly when the ray is inside the
\* box somewhere in [tmin, tmax], and then leaves in tmin and tmax the ends
\* of that part of the interval.
C12_RayBoxOverlap ==
    kernelCall.op = "rayAABBIntersection" =>
        \A o \in {RayOverlap(kernelCall)} :
            /\ kernelCall.result.hit <=> ~FGt(o[1], o[2])
            /\ kernelCall.result.hit =>
                  (kernelCall.result.tmin = o[1] /\ kernelCall.result.tmax = o[2])

\* C13: a ray with no direction meets neither the box nor the plane,
\* wherever it starts.
C13_NoDirectionNoHit ==
    (/\ kernelCall.op \in {"rayAABBIntersection", "rayPlaneIntersection"}
     /\ kernelCall.rayDir = VZero) => ~kernelCall.result.hit

\* C14: a frame update made while the tangible is hidden leaves no axis
\* locked, whatever the slice settings are.
C14_HiddenFrameClearsLock ==
    [][(outcome' = "frame" /\ ~tangibleVisible) => lockedClipAxis' = CLIP_NONE]_vars

\* A frame that computes a camera plane.
CameraFrameStep ==
    /\ outcome' = "frame"
    /\ showSlice /\ ~slice.null /\ sliceType = SLICE_CAMERA /\ tangibleVisible
\* Vector3 pos = state->modelMatrix.inverse() * screenSpacePos, before the filter
PoseDerivedPos(m) == MatApply(MatInverse(m), <<RInt(0), RInt(0), clipDist>>)

\* C24: in camera mode the first plane computed after the tangible becomes
\* visible is unfiltered: the position it leaves is the pose-derived one of
\* that frame, whatever was remembered from before.
C24_FirstPlaneUnfiltered ==
    [][CameraFrameStep /\ noPlaneSinceHidden
         => prevPos' = PoseDerivedPos(modelMatrix')]_vars

\* C7: a frame in stylus mode that finds the stylus matrix singular returns
\* without an exception and leaves the slice point, the slice normal, the
\* slice's render matrix and sliceModelMatrix as they were.
C7_SingularStylusFrameIsQuiet ==
    [][(/\ outcome' \in {"frame", "frame_error"}
        /\ showSlice /\ ~slice.null /\ sliceType = SLICE_STYLUS
        /\ stylusVisible
        /\ ~MatInvertible(stylusModelMatrix'))
         => (/\ outcome' = "frame"
             /\ UNCHANGED <<slicePoint, sliceNormal, slice, sliceModelMatrix>>)]_vars

(***************************************************************************)
(* Properties of the two threads                                           *)
(***************************************************************************)
\* Thread t is inside one of the loops over the particle pool and has
\* dealt with at least the particles before "from".
InPoolPass(t, from) ==
    pc[t] \in {"r_tick", "p_pass", "x_pass"} /\ cursor[t] >= from

\* C1: no pass over the pool runs while another one is under way: the
\* particle pass of renderObjects never finds the loop of releaseParticles
\* or of resetParticles part-way through the pool.
C1_PoolPassesExclusive ==
    ~(InPoolPass("render", 1) /\ InPoolPass("input", 2))

\* Thread t waits for a cell that the other thread holds.
Waiting(t) == pc[t] # "idle" /\ \E c \in Wants(t) : ~Free(c, t)
\* releaseParticles or resetParticles has been called and has not returned
InReleaseOrReset == pc["input"] \in {"p_stylus", "p_seed", "p_lock", "p_pass", "x_pass"}

\* C9: the two threads never wait for each other, and under fair
\* scheduling a call of releaseParticles or of resetParticles returns.
C9_ReleaseAndResetReturn ==
    /\ [](~(\A t \in Threads : Waiting(t)))
    /\ InReleaseOrReset ~> (pc["input"] = "idle")

\* releaseParticles waits for the pool while the particle pass of
\* renderObjects holds it.
C9_ReleaseWaitsForRender ==
    /\ pc["input"] = "p_lock"
    /\ pc["render"] = "r_tick"
    /\ "particles" \in held["render"]
    /\ Waiting("input")

\* updateSlicePlanes has begun and has not reached its end
UpdatePartWay ==
    pc["input"] \in {"u_ray_lock", "u_ray", "u_button", "u_plane", "u_plane_pose",
                     "u_clip_set", "u_clip_clear", "u_points", "u_points_in"}

\* renderObjects is in its particle pass or past it.
InOrPastParticlePass == pc["render"] \in {"r_tick", "r_volume", "r_outline", "r_view"}

\* C28: a frame that found no valid particle draws no particle marker.
C28_NoMarkerWithoutValidParticle ==
    (InOrPastParticlePass /\ ~exists) => markers = {}

\* C10: no particle is ticked while updateSlicePlanes is part-way through.
C10_NoTickDuringClipUpdate ==
    ~(/\ pc["render"] = "r_tick"
      /\ particles[cursor["render"]].valid
      /\ tangibleVisible
      /\ UpdatePartWay)

====
